---- MODULE Spec2Model ----
(***************************************************************************)
(* Model of satcfdi.create.cfd.cfdi40: the Concepto / Impuesto value       *)
(* objects, the Comprobante constructor (per-concept tax step, totals,     *)
(* assembly and signature) and the payment operations pago,                *)
(* pago_comprobante and pago_comprobantes.                                 *)
(*                                                                         *)
(* Exact decimals (decimal.Decimal) are modelled as normalised rationals   *)
(* [n, d] with d > 0; None is the record with d = 0.  The helpers of       *)
(* satcfdi.create.compute (rounder, make_impuesto, make_impuestos,         *)
(* make_impuestos_dr, make_impuestos_dr_parcial), the signer and           *)
(* CFDI.cadena_original are not part of the sources at hand and are        *)
(* modelled from the specification.                                        *)
(***************************************************************************)
EXTENDS Integers, Sequences, FiniteSets, TLC

\* ------------------------------------------------------------------------
\* Bounds of the model
\* ------------------------------------------------------------------------
MaxConceptos == 2
\* longest list of source documents handed to pago_comprobantes
MaxComprobantes == 2
\* the most parts of a compact tax string
MaxPartes == 3
\* the most payments made against one source document
MaxPagos == 2
\* the most API requests a session sends
MaxEnviados == 3

\* ------------------------------------------------------------------------
\* Exact decimal arithmetic
\* ------------------------------------------------------------------------
Abs(x) == IF x < 0 THEN -x ELSE x

RECURSIVE GCD(_, _)
GCD(a, b) == IF b = 0 THEN a ELSE GCD(b, a % b)

\* Decimal value n/d (d > 0), normalised so that numeric equality of
\* decimals (Decimal('0.160') == Decimal('0.16')) is equality of records.
Dec(n, d) == LET g == GCD(Abs(n), d) IN [n |-> n \div g, d |-> d \div g]

None == [n |-> 0, d |-> 0]
IsNone(x) == x.d = 0
Zero == Dec(0, 1)
One == Dec(1, 1)

Add(x, y) == LET g == GCD(x.d, y.d)
             IN  Dec(x.n * (y.d \div g) + y.n * (x.d \div g), (x.d \div g) * y.d)
Neg(x) == [n |-> -x.n, d |-> x.d]
Sub(x, y) == Add(x, Neg(y))
Mul(x, y) == LET g1 == GCD(Abs(x.n), y.d)
                 g2 == GCD(Abs(y.n), x.d)
             IN  Dec((x.n \div g1) * (y.n \div g2), (x.d \div g2) * (y.d \div g1))
\* x / y for y # 0
Div(x, y) == IF y.n > 0 THEN Mul(x, [n |-> y.d, d |-> y.n])
                        ELSE Mul(x, [n |-> -y.d, d |-> -y.n])
Less(x, y) == x.n * y.d < y.n * x.d
Leq(x, y) == x.n * y.d <= y.n * x.d
AbsDec(x) == [n |-> Abs(x.n), d |-> x.d]
\* Python truthiness of an optional decimal: None and 0 are falsy
Truthy(x) == ~IsNone(x) /\ x.n # 0
\* (x or 0)
OrZero(x) == IF Truthy(x) THEN x ELSE Zero

RECURSIVE SumDec(_)
SumDec(s) == IF s = <<>> THEN Zero ELSE Add(Head(s), SumDec(Tail(s)))

Pow10(k) == CASE k = 0 -> 1 [] k = 1 -> 10 [] k = 2 -> 100 [] OTHER -> 1000

\* ------------------------------------------------------------------------
\* Currency / rounding table (satcfdi.create.compute.rounder)
\* ------------------------------------------------------------------------
RoundingModes == {"ROUND_HALF_UP", "ROUND_HALF_EVEN"}

Monedas == {"MXN", "JPY", "XXX"}

MonedaDecimales(moneda) == CASE moneda = "MXN" -> 2
                             [] moneda = "JPY" -> 0
                             [] moneda = "XXX" -> 0

\* Nearest integer to n/d under the rounding mode
RoundInt(mode, n, d) ==
    LET f == n \div d
        r == n % d
    IN  IF 2 * r < d THEN f
        ELSE IF 2 * r > d THEN f + 1
        ELSE IF mode = "ROUND_HALF_UP"
             THEN (IF n >= 0 THEN f + 1 ELSE f)
             ELSE (IF f % 2 = 0 THEN f ELSE f + 1)

\* rnd_fn = rounder(moneda): round to the currency's number of decimals
rnd_fn(mode, decimals, x) ==
    LET p == Pow10(decimals)
        g == GCD(p, x.d)
    IN  Dec(RoundInt(mode, x.n * (p \div g), x.d \div g), p)

\* one rounding unit of a currency with the given decimals
RoundingUnit(decimals) == Dec(1, Pow10(decimals))

\* ------------------------------------------------------------------------
\* Impuesto (tax record) and its compact-string parser
\* ------------------------------------------------------------------------
\* a record that keeps the name of the tax as it was written
ImpuestoSinCodigo(impuesto) == impuesto

\* _impuestos.get(impuesto, impuesto)
ImpuestoCode(impuesto) == CASE impuesto = "ISR" -> "001"
                            [] impuesto = "IVA" -> "002"
                            [] impuesto = "IEPS" -> "003"
                            [] OTHER -> impuesto

\* Impuesto.__init__; a tax record as it travels through the build.  isStr
\* marks an element that is still a compact string (its text is kept as the
\* sequence of its maximal '|'-free chunks and its '|' delimiters).
Impuesto(impuesto, tipo_factor, tasa_o_cuota, importe, base) ==
    [isStr |-> FALSE, text |-> <<>>,
     Base |-> base, Impuesto |-> ImpuestoCode(impuesto),
     TipoFactor |-> tipo_factor, TasaOCuota |-> tasa_o_cuota,
     Importe |-> importe]

\* a compact string "kind|factor|rate" handed in instead of an Impuesto
TaxString(text) ==
    [isStr |-> TRUE, text |-> text,
     Base |-> None, Impuesto |-> "", TipoFactor |-> "", TasaOCuota |-> None,
     Importe |-> None]

\* str.split("|")
RECURSIVE SplitFrom(_, _, _)
SplitFrom(s, i, cur) ==
    IF i > Len(s) THEN <<cur>>
    ELSE IF s[i] = "|" THEN <<cur>> \o SplitFrom(s, i + 1, "")
    ELSE SplitFrom(s, i + 1, s[i])
Split(s) == SplitFrom(s, 1, "")

\* the literals the model feeds to Decimal(text)
IsDecimalLiteral(t) == t \in {"0.08", "0.16", "0.160000", "0.30", "1.6", "0.5", "0"}
\* a parse that keeps the scale of the literal: '0.160000' is not '0.16'
DecimalOfEscala(t) == CASE t = "0.08" -> Dec(8, 100)
                        [] t = "0.16" -> Dec(16, 100)
                        [] t = "0.160000" -> [n |-> 160000, d |-> 1000000]
                        [] t = "0.30" -> Dec(30, 100)
                        [] t = "1.6" -> Dec(16, 10)
                        [] t = "0.5" -> Dec(5, 10)
                        [] t = "0" -> Zero

\* Decimal(parts[2])
DecimalOf(t) == CASE t = "0.08" -> Dec(8, 100)
                  [] t = "0.16" -> Dec(16, 100)
                  [] t = "0.160000" -> Dec(160000, 1000000)
                  [] t = "0.30" -> Dec(30, 100)
                  [] t = "1.6" -> Dec(16, 10)
                  [] t = "0.5" -> Dec(5, 10)
                  [] t = "0" -> Zero

\* Impuesto.parse: [err, imp]; err # "" when the call raises
FromParts(text, parts) ==
    IF Len(parts) < 2
    THEN [err |-> "IndexError", imp |-> TaxString(text)]
    ELSE IF Len(parts) > 2 /\ ~IsDecimalLiteral(parts[3])
    THEN [err |-> "InvalidOperation", imp |-> TaxString(text)]
    ELSE [err |-> "",
          imp |-> Impuesto(parts[1], parts[2],
                           IF Len(parts) > 2 THEN DecimalOf(parts[3]) ELSE None,
                           None, None)]

parse(text) == FromParts(text, Split(text))

\* [x if isinstance(x, Impuesto) else Impuesto.parse(x) for x in ...]
\* the list of records from the outcome h for its first element and the
\* outcome t for the remaining ones; the first exception wins
JoinImps(h, t) ==
    IF h.err # "" THEN [err |-> h.err, imps |-> <<>>]
    ELSE IF t.err # "" THEN t
    ELSE [err |-> "", imps |-> <<h.imp>> \o t.imps]

RECURSIVE ParseAll(_)
ParseAll(items) ==
    IF items = <<>> THEN [err |-> "", imps |-> <<>>]
    ELSE JoinImps(IF Head(items).isStr THEN parse(Head(items).text)
                  ELSE [err |-> "", imp |-> Head(items)],
                  ParseAll(Tail(items)))

\* ------------------------------------------------------------------------
\* Concepto
\* ------------------------------------------------------------------------
NoneImpuestos == [isNone |-> TRUE, Traslados |-> <<>>, Retenciones |-> <<>>]

\* Concepto.__init__ (Importe is not a constructor field: absent until built)
Concepto(cantidad, valor_unitario, objeto_imp, descuento, traslados, retenciones, traslados_incluidos) ==
    [Cantidad |-> cantidad, ValorUnitario |-> valor_unitario,
     ObjetoImp |-> objeto_imp, Descuento |-> descuento,
     Impuestos |-> [isNone |-> FALSE, Traslados |-> traslados,
                    Retenciones |-> retenciones],
     traslados_incluidos |-> traslados_incluidos,
     Importe |-> None]

\* ------------------------------------------------------------------------
\* satcfdi.create.compute.make_impuesto
\* ------------------------------------------------------------------------
\* make_impuesto(i, base, rnd_fn): a new record with Base and Importe filled
\* in by factor type; raises when Base / Importe are already set or when a
\* Tasa / Cuota record has no rate.
make_impuesto(mode, decimals, i, base) ==
    IF ~IsNone(i.Base) \/ ~IsNone(i.Importe)
    THEN [err |-> "AmbiguousTaxBase", imp |-> i]
    ELSE IF i.TipoFactor = "Exento"
    THEN [err |-> "", imp |-> [i EXCEPT !.Base = base]]
    ELSE IF IsNone(i.TasaOCuota)
    THEN [err |-> "MalformedTaxSpec", imp |-> i]
    ELSE IF i.TipoFactor = "Cuota"
    THEN [err |-> "",
          imp |-> [i EXCEPT !.Base = base,
                            !.Importe = rnd_fn(mode, decimals, i.TasaOCuota)]]
    ELSE [err |-> "",
          imp |-> [i EXCEPT !.Base = base,
                            !.Importe = rnd_fn(mode, decimals,
                                               Mul(base, i.TasaOCuota))]]

\* [make_impuesto(i, base=base, rnd_fn=rnd_fn) for i in imp]
RECURSIVE MakeAll(_, _, _, _)
MakeAll(mode, decimals, imp, base) ==
    IF imp = <<>> THEN [err |-> "", imps |-> <<>>]
    ELSE JoinImps(make_impuesto(mode, decimals, Head(imp), base),
                  MakeAll(mode, decimals, Tail(imp), base))

\* ------------------------------------------------------------------------
\* Comprobante.__init__: the per-concept step (body of the for loop)
\* ------------------------------------------------------------------------
RECURSIVE SumTasaOCuota(_, _)
\* sum(c["TasaOCuota"] for c in trasladados if c["TipoFactor"] == tipo_factor)
SumTasaOCuota(trasladados, tipo_factor) ==
    IF trasladados = <<>> THEN Zero
    ELSE IF Head(trasladados).TipoFactor = tipo_factor
    THEN Add(Head(trasladados).TasaOCuota,
             SumTasaOCuota(Tail(trasladados), tipo_factor))
    ELSE SumTasaOCuota(Tail(trasladados), tipo_factor)

\* the sum() above raises TypeError when a selected record has no rate
SumRaises(trasladados) ==
    \E k \in 1..Len(trasladados) :
        /\ trasladados[k].TipoFactor \in {"Tasa", "Cuota"}
        /\ IsNone(trasladados[k].TasaOCuota)

\* the check looking at Importe only
TieneImporte(trasladados) ==
    \E k \in 1..Len(trasladados) :
        /\ trasladados[k].TipoFactor \in {"Tasa", "Cuota"}
        /\ ~IsNone(trasladados[k].Importe)

\* any(c for c in trasladados if c["TipoFactor"] in ('Tasa', 'Cuota')
\*       and (c.get('Base') is not None or c.get('Importe') is not None))
TieneBaseOImporte(trasladados) ==
    \E k \in 1..Len(trasladados) :
        /\ trasladados[k].TipoFactor \in {"Tasa", "Cuota"}
        /\ (~IsNone(trasladados[k].Base) \/ ~IsNone(trasladados[k].Importe))

\* the back-solve with the fees left in the price
ValorUnitarioSinTasa(valor_unitario, s_cuota, s_tasa) ==
    Div(valor_unitario, Add(s_tasa, One))

\* valor_unitario = (valor_unitario - s_cuota) / (s_tasa + 1)
ValorUnitarioSinTraslados(valor_unitario, s_cuota, s_tasa) ==
    Div(Sub(valor_unitario, s_cuota), Add(s_tasa, One))

\* the amount taken for a single unit
ImporteUnitario(cantidad, valor_unitario) == valor_unitario

\* importe = concepto["Cantidad"] * valor_unitario
Importe(cantidad, valor_unitario) == Mul(cantidad, valor_unitario)

\* the base with the discount left out
BaseSinDescuento(importe, concepto) == importe

\* base = importe - (concepto.get("Descuento") or 0)
Base(importe, concepto) == Sub(importe, OrZero(concepto.Descuento))

\* the skip applied to '01' only
NoObjeto01(concepto) == concepto.ObjetoImp = "01"

\* concepto["ObjetoImp"] in ("01", "03")
NoObjeto(concepto) == concepto.ObjetoImp \in {"01", "03"}

\* the marking decided by the transferred taxes alone
ObjetoImpTraslados(traslados, retenciones) ==
    IF traslados # <<>> THEN "02" ELSE "01"

\* concepto["ObjetoImp"] = "02" if impuestos else "01"
ObjetoImp(traslados, retenciones) ==
    IF traslados # <<>> \/ retenciones # <<>> THEN "02" ELSE "01"

\* concepto['Impuestos'] = impuestos or None
ImpuestosOrNone(traslados, retenciones) ==
    IF traslados # <<>> \/ retenciones # <<>>
    THEN [isNone |-> FALSE, Traslados |-> traslados, Retenciones |-> retenciones]
    ELSE NoneImpuestos

\* The locals of one pass of the loop, when nothing was computed
NoLocals == [valor_unitario |-> None, importe |-> None, base |-> None]

\* The outcome of one pass of the loop over a concept is [err, concepto,
\* locals]; when the pass raises, concepto holds the writes made before the
\* raise.  The pass is split where a value is computed that the rest uses.

\* concepto['Impuestos'] = impuestos or None; concepto["ObjetoImp"] = ...
\* (mt, mr: the two lists built by make_impuesto, or the exception raised)
StepMarcar(c2, pass, mt, mr) ==
    IF mt.err # "" THEN [err |-> mt.err, concepto |-> c2, locals |-> pass]
    ELSE IF mr.err # "" THEN [err |-> mr.err, concepto |-> c2, locals |-> pass]
    ELSE [err |-> "",
          concepto |-> [c2 EXCEPT !.Impuestos = ImpuestosOrNone(mt.imps, mr.imps),
                                  !.ObjetoImp = ObjetoImp(mt.imps, mr.imps)],
          locals |-> pass]

\* impuestos = {imp_t: [make_impuesto(...) for i in imp] for ... if imp}
StepMake(mode, decimals, c2, trasladados, retenciones, valor_unitario, importe, base) ==
    StepMarcar(c2,
               [valor_unitario |-> valor_unitario, importe |-> importe,
                base |-> base],
               MakeAll(mode, decimals, trasladados, base),
               MakeAll(mode, decimals, retenciones, base))

\* if concepto.get("ObjetoImp") in ("01", "03"): ...; continue
\* base = importe - (concepto.get("Descuento") or 0)
StepImpuestos(mode, decimals, c2, trasladados, retenciones, valor_unitario, importe) ==
    IF NoObjeto(c2)
    THEN [err |-> "", concepto |-> [c2 EXCEPT !.Impuestos = NoneImpuestos],
          locals |-> [valor_unitario |-> valor_unitario, importe |-> importe,
                      base |-> None]]
    ELSE StepMake(mode, decimals, c2, trasladados, retenciones, valor_unitario,
                  importe, Base(importe, c2))

\* concepto["Importe"] = rnd_fn(importe)
StepImporte(mode, decimals, c1, trasladados, retenciones, valor_unitario, importe) ==
    StepImpuestos(mode, decimals,
                  [c1 EXCEPT !.Importe = rnd_fn(mode, decimals, importe)],
                  trasladados, retenciones, valor_unitario, importe)

\* concepto['ValorUnitario'] = rnd_fn(valor_unitario) (tax-inclusive only);
\* importe = concepto["Cantidad"] * valor_unitario
StepValor(mode, decimals, concepto, trasladados, retenciones, valor_unitario) ==
    StepImporte(mode, decimals,
                IF concepto.traslados_incluidos
                THEN [concepto EXCEPT !.ValorUnitario =
                                          rnd_fn(mode, decimals, valor_unitario)]
                ELSE concepto,
                trasladados, retenciones, valor_unitario,
                Importe(concepto.Cantidad, valor_unitario))

\* if concepto.get('_traslados_incluidos'): ... else: valor_unitario = ...
StepIncluidos(mode, decimals, concepto, trasladados, retenciones) ==
    IF ~concepto.traslados_incluidos
    THEN StepValor(mode, decimals, concepto, trasladados, retenciones,
                   concepto.ValorUnitario)
    ELSE IF SumRaises(trasladados)
    THEN [err |-> "TypeError", concepto |-> concepto, locals |-> NoLocals]
    ELSE IF TieneBaseOImporte(trasladados)
    THEN [err |-> "ValueError", concepto |-> concepto, locals |-> NoLocals]
    ELSE IF Add(SumTasaOCuota(trasladados, "Tasa"), One).n = 0
    THEN [err |-> "DivisionByZero", concepto |-> concepto, locals |-> NoLocals]
    ELSE StepValor(mode, decimals, concepto, trasladados, retenciones,
                   ValorUnitarioSinTraslados(concepto.ValorUnitario,
                                             SumTasaOCuota(trasladados, "Cuota"),
                                             SumTasaOCuota(trasladados, "Tasa")))

\* the two parsed lists, or the exception raised while parsing
StepParsed(mode, decimals, concepto, pt, pr) ==
    IF pt.err # "" THEN [err |-> pt.err, concepto |-> concepto, locals |-> NoLocals]
    ELSE IF pr.err # "" THEN [err |-> pr.err, concepto |-> concepto, locals |-> NoLocals]
    ELSE StepIncluidos(mode, decimals, concepto, pt.imps, pr.imps)

\* one pass of the loop, from the top
ConceptoStep(mode, decimals, concepto) ==
    IF concepto.Impuestos.isNone
    THEN [err |-> "AttributeError", concepto |-> concepto, locals |-> NoLocals]
    ELSE StepParsed(mode, decimals, concepto,
                    ParseAll(concepto.Impuestos.Traslados),
                    ParseAll(concepto.Impuestos.Retenciones))

\* the outcome of the loop from the outcome h of its first pass and the
\* outcome t of the loop over the remaining concepts
LoopJoin(h, t) ==
    [err |-> t.err,
     conceptos |-> <<h.concepto>> \o t.conceptos,
     locals |-> <<h.locals>> \o t.locals]

\* a pass that raised ends the loop: the remaining concepts stay untouched
LoopRaise(h, rest) ==
    [err |-> h.err,
     conceptos |-> <<h.concepto>> \o rest,
     locals |-> <<h.locals>> \o [k \in 1..Len(rest) |-> NoLocals]]

\* for concepto in iterate(conceptos): [err, conceptos, locals]
RECURSIVE ConceptosLoop(_, _, _)
LoopNext(mode, decimals, rest, h) ==
    IF h.err # "" THEN LoopRaise(h, rest)
    ELSE LoopJoin(h, ConceptosLoop(mode, decimals, rest))

ConceptosLoop(mode, decimals, cs) ==
    IF cs = <<>> THEN [err |-> "", conceptos |-> <<>>, locals |-> <<>>]
    ELSE LoopNext(mode, decimals, Tail(cs),
                  ConceptoStep(mode, decimals, Head(cs)))

\* ------------------------------------------------------------------------
\* satcfdi.create.compute.make_impuestos: document-level aggregation
\* ------------------------------------------------------------------------
RECURSIVE Traslados(_)
\* every concept-level transferred record of the concept list, in order
Traslados(cs) ==
    IF cs = <<>> THEN <<>>
    ELSE Head(cs).Impuestos.Traslados \o Traslados(Tail(cs))

RECURSIVE Retenciones(_)
\* every concept-level withheld record of the concept list, in order
Retenciones(cs) ==
    IF cs = <<>> THEN <<>>
    ELSE Head(cs).Impuestos.Retenciones \o Retenciones(Tail(cs))

\* grouping key (kind, factor, rate); Exento is grouped by kind alone
GroupKey(r) ==
    [Impuesto |-> r.Impuesto, TipoFactor |-> r.TipoFactor,
     TasaOCuota |-> IF r.TipoFactor = "Exento" THEN None ELSE r.TasaOCuota]

RECURSIVE SumBase(_)
SumBase(recs) ==
    IF recs = <<>> THEN Zero ELSE Add(OrZero(Head(recs).Base), SumBase(Tail(recs)))

RECURSIVE SumImporte(_)
SumImporte(recs) ==
    IF recs = <<>> THEN Zero
    ELSE Add(OrZero(Head(recs).Importe), SumImporte(Tail(recs)))

\* the groups of a list of concept-level records: Base and Importe summed
\* per key; an Exento group carries a Base only
Groups(recs) ==
    { LET InGroup(r) == GroupKey(r) = key
          members == SelectSeq(recs, InGroup)
      IN  [Impuesto |-> key.Impuesto, TipoFactor |-> key.TipoFactor,
           TasaOCuota |-> key.TasaOCuota,
           Base |-> SumBase(members),
           Importe |-> IF key.TipoFactor = "Exento" THEN None
                       ELSE SumImporte(members)]
      : key \in {GroupKey(recs[k]) : k \in 1..Len(recs)} }

RECURSIVE SumGroups(_)
\* sum of the Importe of a set of groups
SumGroups(groups) ==
    IF groups = {} THEN Zero
    ELSE LET g == CHOOSE x \in groups : TRUE
         IN  Add(OrZero(g.Importe), SumGroups(groups \ {g}))

NoneDocImpuestos ==
    [isNone |-> TRUE, Traslados |-> {}, Retenciones |-> {},
     TotalImpuestosTrasladados |-> None, TotalImpuestosRetenidos |-> None]

\* make_impuestos(conceptos): None when no concept carries a tax record; a
\* total is absent (None) when there is no group of its kind
make_impuestos(cs) ==
    LET t == Groups(Traslados(cs))
        r == Groups(Retenciones(cs))
    IN  IF t = {} /\ r = {} THEN NoneDocImpuestos
        ELSE [isNone |-> FALSE, Traslados |-> t, Retenciones |-> r,
              TotalImpuestosTrasladados |-> IF t = {} THEN None ELSE SumGroups(t),
              TotalImpuestosRetenidos |-> IF r = {} THEN None ELSE SumGroups(r)]

\* ------------------------------------------------------------------------
\* Comprobante.__init__: totals
\* ------------------------------------------------------------------------
RECURSIVE SubTotalSinRedondeo(_)
\* the subtotal recomputed from quantity and price instead of Importe
SubTotalSinRedondeo(cs) ==
    IF cs = <<>> THEN Zero
    ELSE Add(Mul(Head(cs).Cantidad, Head(cs).ValorUnitario),
             SubTotalSinRedondeo(Tail(cs)))

RECURSIVE SubTotal(_)
\* sub_total = sum(c['Importe'] for c in iterate(conceptos))
SubTotal(cs) ==
    IF cs = <<>> THEN Zero ELSE Add(Head(cs).Importe, SubTotal(Tail(cs)))

RECURSIVE Descuento(_)
\* descuento = sum(c.get('Descuento') or 0 for c in iterate(conceptos))
Descuento(cs) ==
    IF cs = <<>> THEN Zero ELSE Add(OrZero(Head(cs).Descuento), Descuento(Tail(cs)))

\* impuestos.get(key, 0)
GetOrZero(x) == IF IsNone(x) THEN Zero ELSE x

\* the total with the withheld taxes added instead of subtracted
TotalMasRetenidos(sub_total, descuento, impuestos) ==
    IF impuestos.isNone THEN Sub(sub_total, descuento)
    ELSE Add(Add(Sub(sub_total, descuento),
                 GetOrZero(impuestos.TotalImpuestosTrasladados)),
             GetOrZero(impuestos.TotalImpuestosRetenidos))

\* total = sub_total - descuento; if impuestos: total += ...; total -= ...
Total(sub_total, descuento, impuestos) ==
    IF impuestos.isNone THEN Sub(sub_total, descuento)
    ELSE Sub(Add(Sub(sub_total, descuento),
                 GetOrZero(impuestos.TotalImpuestosTrasladados)),
             GetOrZero(impuestos.TotalImpuestosRetenidos))

\* ------------------------------------------------------------------------
\* Issuer, Receptor, signature
\* ------------------------------------------------------------------------
\* an Issuer: rfc, tax_system and whether it holds a signer
Issuer(rfc, tax_system, signer) ==
    [rfc |-> rfc, tax_system |-> tax_system, signer |-> signer]

\* Receptor(rfc, regimen_fiscal_receptor, uso_cfdi)
Receptor(rfc, regimen_fiscal_receptor, uso_cfdi) ==
    [Rfc |-> rfc, RegimenFiscalReceptor |-> regimen_fiscal_receptor,
     UsoCFDI |-> uso_cfdi]

NoReceptor == Receptor("", "", "")

\* a field that is absent (None), the empty string '', or a signature
Absent == [kind |-> "absent", de |-> <<>>]
Empty == [kind |-> "empty", de |-> <<>>]

\* signer.sign_sha256(message): the signature of exactly that message
sign_sha256(message) == [kind |-> "signature", de |-> <<message>>]

\* signer.certificate_base64()
certificate_base64 == [kind |-> "certificate", de |-> <<>>]

\* a document held in memory as the constructor left it: its tree, its
\* concepts, and the key 'Impuestos' in it even when its value is None
EnMemoria(tree, cs) == [doc |-> tree, Conceptos |-> cs, ImpuestosPresente |-> TRUE]

\* the fields of a document that are present: in it and not null
CamposPresentes(c) ==
    {"Moneda", "SubTotal", "Total", "TipoDeComprobante", "Emisor", "Receptor"}
    \cup (IF c.doc.Certificado = Absent THEN {} ELSE {"Certificado"})
    \cup (IF c.doc.Sello = Absent THEN {} ELSE {"Sello"})
    \cup (IF IsNone(c.doc.Descuento) THEN {} ELSE {"Descuento"})
    \cup (IF c.ImpuestosPresente /\ ~c.doc.Impuestos.isNone THEN {"Impuestos"} ELSE {})
    \cup (IF c.doc.Complemento.isNone THEN {} ELSE {"Complemento"})

\* a rendering that writes out a key that is in the document with a null value
renderConNulos(c) ==
    [Comprobante |-> [f \in CamposPresentes(c) \cup
                            (IF c.ImpuestosPresente THEN {"Impuestos"} ELSE {})
                        |-> c.doc[f]],
     Conceptos |-> c.Conceptos]

\* render(node): the canonical string of a document, determined by its
\* present fields and by the concepts it holds
render(c) ==
    [Comprobante |-> [f \in CamposPresentes(c) |-> c.doc[f]],
     Conceptos |-> c.Conceptos]

\* self.cadena_original(): the canonical string of the tree as it stands
cadena_original(tree, cs) == render(EnMemoria(tree, cs))

NoComplemento == [isNone |-> TRUE, Pago |-> <<>>]

\* no document (the constructor raised)
NoDoc ==
    [built |-> FALSE, Moneda |-> "", SubTotal |-> None, Descuento |-> None,
     Total |-> None, Impuestos |-> NoneDocImpuestos,
     TipoDeComprobante |-> "", Emisor |-> [Rfc |-> "", RegimenFiscal |-> ""],
     Receptor |-> NoReceptor, Certificado |-> Absent, Sello |-> Absent,
     Complemento |-> NoComplemento]

\* ------------------------------------------------------------------------
\* Inputs: the tax records and concepts a caller hands to the constructor
\* ------------------------------------------------------------------------
D(n) == Dec(n, 1)

IVA16 == TaxString(<<"IVA", "|", "Tasa", "|", "0.16">>)
IVA16Largo == TaxString(<<"IVA", "|", "Tasa", "|", "0.160000">>)
ISR30 == TaxString(<<"ISR", "|", "Tasa", "|", "0.30">>)
IVA8 == TaxString(<<"IVA", "|", "Tasa", "|", "0.08">>)
IEPS160 == Impuesto("IEPS", "Tasa", Dec(16, 10), None, None)
IEPSExento == TaxString(<<"IEPS", "|", "Exento">>)
IVAExentoConTasa == TaxString(<<"IVA", "|", "Exento", "|", "0.16">>)
IEPSCuota == TaxString(<<"IEPS", "|", "Cuota", "|", "0.5">>)
IVAConBase == Impuesto("IVA", "Tasa", Dec(16, 100), None, D(100))
ISRConImporte == Impuesto("ISR", "Tasa", Dec(30, 100), D(30), None)
SinFactor == TaxString(<<"IVA">>)

ConceptoPool == {
    Concepto(D(3), D(100), "", None, <<IVA8>>, <<>>, TRUE),
    Concepto(D(1), D(1), "", None, <<IEPS160>>, <<>>, TRUE),
    Concepto(Dec(3, 2), Dec(1, 100), "", None, <<IVA16>>, <<>>, FALSE),
    Concepto(D(1), D(1), "", D(2), <<IVA16>>, <<>>, FALSE),
    Concepto(D(1), D(10), "", None, <<IVAExentoConTasa>>, <<>>, FALSE),
    Concepto(D(1), D(100), "", None, <<IVAConBase>>, <<>>, TRUE),
    Concepto(D(1), D(100), "01", None, <<IVA16>>, <<ISRConImporte>>, TRUE),
    Concepto(D(1), D(100), "03", D(10), <<IVA16>>, <<ISR30>>, FALSE),
    Concepto(D(2), D(50), "02", None, <<>>, <<>>, FALSE),
    Concepto(D(1), D(2250000), "", None, <<IVA16>>, <<ISR30>>, FALSE),
    Concepto(D(1), D(116), "04", Zero, <<IVA16Largo>>, <<>>, FALSE),
    Concepto(D(2), D(10), "", D(5), <<IEPSCuota, IVA8>>, <<>>, TRUE),
    Concepto(D(1), D(10), "", None, <<SinFactor>>, <<>>, FALSE),
    Concepto(D(-1), D(10), "", None, <<IVA16>>, <<>>, FALSE),
    Concepto(D(1), D(10), "", None, <<IEPSExento>>, <<>>, FALSE),
    Concepto(D(1), D(100), "", None, <<>>, <<ISRConImporte>>, FALSE),
    Concepto(Dec(3, 2), D(1), "", D(3), <<>>, <<ISR30>>, FALSE),
    Concepto(D(1), D(100), "03", None, <<IVAConBase>>, <<>>, TRUE),
    Concepto(D(-2), D(5), "01", None, <<>>, <<>>, FALSE)
}

\* ------------------------------------------------------------------------
\* State
\* ------------------------------------------------------------------------
VARIABLES
    rounding,   \* rounding mode of rnd_fn (fixed for the whole run)
    conceptos,  \* the caller's concept objects, written in place by the build
    entrada,    \* the concept list as it was passed to the constructor
    status,     \* "input" | "built" | "failed"
    error,      \* the exception raised by a failed build
    moneda,     \* the moneda argument of the build
    locals,     \* per concept: valor_unitario, importe, base of its loop pass
    doc,        \* the Comprobante the constructor returned
    emisor,     \* the emisor argument of the last call
    firmado,    \* the messages sign_sha256 received during the last call
    previo,     \* the document an earlier build made of the same concepts
    llamada,    \* the operation called last
    fuentes,    \* the caller's source documents after a payment operation
    pedido,     \* the arguments of the last payment operation
    pagos,      \* the related-document entries of the payments of fuentes[1]
    texto,      \* a compact tax string handed to Impuesto.parse
    parsed,     \* the outcome of Impuesto.parse(texto)
    token,      \* SATFacturaElectronica._request_verification_token
    enviados,   \* the API requests the session has sent: token and status
    ultimo      \* the last operation on the session and how it ended

vars == <<rounding, conceptos, entrada, status, error, moneda, locals, doc,
          emisor, firmado, previo, llamada, fuentes, pedido, pagos, texto,
          parsed, token, enviados, ultimo>>

\* the state of a constructor or payment call
principal == <<rounding, conceptos, entrada, status, error, moneda, locals, doc,
               emisor, firmado, previo, llamada, fuentes, pedido, pagos>>

\* no payment operation called yet
NoPedido == [version |-> "", tipo_cambio |-> None, comprobantes |-> <<>>]

\* the state of a portal session
portal == <<token, enviados, ultimo>>

\* the state of the other operations
otros == <<texto, parsed, token, enviados, ultimo>>

\* Python's None as the value of a token
Null == "None"

\* no operation on the session yet
NoOp == [op |-> "", antes |-> Null, recarga |-> 0, err |-> ""]

\* no call of Impuesto.parse yet
NoParsed == [hecho |-> FALSE, err |-> "", imp |-> TaxString(<<>>)]

EmisorA == Issuer("AAA010101AAA", "601", TRUE)
EmisorSinFirma == Issuer("AAA010101AAA", "601", FALSE)
ReceptorA == Receptor("XAXX010101000", "616", "G03")

EmisorB == Issuer("BBB020202BBB", "601", TRUE)
EmisorOtroRegimen == Issuer("AAA010101AAA", "612", TRUE)
ReceptorB == Receptor("BBB020202BBB", "616", "G03")
ReceptorOtroRegimen == Receptor("XAXX010101000", "601", "G03")

Init ==
    /\ rounding \in RoundingModes
    /\ conceptos = <<>>
    /\ entrada = <<>>
    /\ status = "input"
    /\ error = ""
    /\ moneda = ""
    /\ locals = <<>>
    /\ doc = NoDoc
    /\ emisor = EmisorSinFirma
    /\ firmado = <<>>
    /\ previo = NoDoc
    /\ llamada = ""
    /\ fuentes = <<>>
    /\ pedido = NoPedido
    /\ pagos = <<>>
    /\ texto = <<>>
    /\ parsed = NoParsed
    /\ token = Null
    /\ enviados = <<>>
    /\ ultimo = NoOp

\* Concepto(...): the caller creates one more concept for the list
NewConcepto ==
    /\ status = "input"
    /\ Len(conceptos) < MaxConceptos
    /\ \E c \in ConceptoPool : conceptos' = Append(conceptos, c)
    /\ UNCHANGED <<rounding, entrada, status, error, moneda, locals, doc,
                   emisor, firmado, previo, llamada, fuentes, pedido, pagos>>
    /\ UNCHANGED otros

\* the arguments of a constructor call
Args(e, receptor, m, tipo_de_comprobante, complemento) ==
    [emisor |-> e, receptor |-> receptor, moneda |-> m,
     tipo_de_comprobante |-> tipo_de_comprobante, complemento |-> complemento]

\* the tree that hides the Sello field altogether instead of leaving it ''
DocumentSinSello(a, sub_total, descuento, impuestos) ==
    [built |-> TRUE, Moneda |-> a.moneda, SubTotal |-> sub_total,
     Descuento |-> IF Truthy(descuento) THEN descuento ELSE None,
     Total |-> Total(sub_total, descuento, impuestos),
     Impuestos |-> impuestos,
     TipoDeComprobante |-> a.tipo_de_comprobante,
     Emisor |-> [Rfc |-> a.emisor.rfc, RegimenFiscal |-> a.emisor.tax_system],
     Receptor |-> a.receptor,
     Certificado |-> IF a.emisor.signer THEN certificate_base64 ELSE Empty,
     Sello |-> Absent,
     Complemento |-> a.complemento]

\* super().__init__({...}): the document assembled from the totals, its
\* Sello the empty string
Document(a, sub_total, descuento, impuestos) ==
    [built |-> TRUE, Moneda |-> a.moneda, SubTotal |-> sub_total,
     Descuento |-> IF Truthy(descuento) THEN descuento ELSE None,
     Total |-> Total(sub_total, descuento, impuestos),
     Impuestos |-> impuestos,
     TipoDeComprobante |-> a.tipo_de_comprobante,
     Emisor |-> [Rfc |-> a.emisor.rfc, RegimenFiscal |-> a.emisor.tax_system],
     Receptor |-> a.receptor,
     Certificado |-> IF a.emisor.signer THEN certificate_base64 ELSE Empty,
     Sello |-> Empty,
     Complemento |-> a.complemento]

\* a signing step that signs the tree before its taxes were attached
SellarSinImpuestos(e, tree, cs, cadena) ==
    IF e.signer
    THEN [doc |-> [tree EXCEPT !.Sello = sign_sha256(
                       cadena_original([tree EXCEPT !.Impuestos = NoneDocImpuestos], cs))],
          firmado |-> <<cadena_original([tree EXCEPT !.Impuestos = NoneDocImpuestos], cs)>>]
    ELSE [doc |-> tree, firmado |-> <<>>]

\* if emisor.signer: self['Sello'] = emisor.signer.sign_sha256(
\*     self.cadena_original().encode()); cadena is self.cadena_original()
Sellar(e, tree, cs, cadena) ==
    IF e.signer
    THEN [doc |-> [tree EXCEPT !.Sello = sign_sha256(cadena)],
          firmado |-> <<cadena>>]
    ELSE [doc |-> tree, firmado |-> <<>>]

\* a call that swallows the exception and hands back what it has so far
RaisedDevuelto(err, cs, ls) ==
    [status |-> "built", error |-> err, conceptos |-> cs, locals |-> ls,
     doc |-> NoDoc, firmado |-> <<>>]

\* the outcome of a constructor call that raised err
Raised(err, cs, ls) ==
    [status |-> "failed", error |-> err, conceptos |-> cs, locals |-> ls,
     doc |-> NoDoc, firmado |-> <<>>]

\* the outcome of a constructor call that returned: s is the signing step
Returned(cs, ls, s) ==
    [status |-> "built", error |-> "", conceptos |-> cs, locals |-> ls,
     doc |-> s.doc, firmado |-> s.firmado]

\* the tree is assembled, then signed
Assemble(a, cs, ls, tree) ==
    Returned(cs, ls, Sellar(a.emisor, tree, cs, cadena_original(tree, cs)))

\* the outcome of the constructor from the outcome r of its loop
AfterLoop(a, r) ==
    IF r.err # ""
    THEN Raised(r.err, r.conceptos, r.locals)
    ELSE Assemble(a, r.conceptos, r.locals,
                  Document(a, SubTotal(r.conceptos), Descuento(r.conceptos),
                           make_impuestos(r.conceptos)))

\* a constructor that looks the currency up only after its loop has run
ComprobanteMonedaTardia(mode, a, cs) ==
    IF a.moneda \notin Monedas
    THEN Raised("UnknownCurrency", ConceptosLoop(mode, 2, cs).conceptos, <<>>)
    ELSE AfterLoop(a, ConceptosLoop(mode, MonedaDecimales(a.moneda), cs))

\* Comprobante.__init__(emisor, receptor, conceptos=cs, moneda, ...)
Comprobante(mode, a, cs) ==
    IF a.moneda \notin Monedas
    THEN Raised("UnknownCurrency", cs, <<>>)
    ELSE AfterLoop(a, ConceptosLoop(mode, MonedaDecimales(a.moneda), cs))

\* ------------------------------------------------------------------------
\* Payment documents: pago, pago_comprobante, pago_comprobantes
\* ------------------------------------------------------------------------
\* a stamped document as a payment operation reads it: its tree, its
\* concepts, and whether the key 'Impuestos' is in it
CFDI(tree, cs) ==
    [doc |-> tree, Conceptos |-> cs, ImpuestosPresente |-> ~tree.Impuestos.isNone]

\* the concept of a payment document
ConceptoPago == Concepto(D(1), Zero, "01", None, <<>>, <<>>, FALSE)

\* complemento_pago.version
PagosVersion == "2.0"

\* the versions of the payment complement a class may carry
Versiones == {"1.0", PagosVersion}

\* a payment that hands the caller's exchange rate on as it came
TipoCambioIntacto(version, m, tipo_cambio) == tipo_cambio

\* CRP204: tipo_cambio after the rule, version being
\* cls.complemento_pago.version
TipoCambioRegla(version, m, tipo_cambio) ==
    IF version = "1.0"
    THEN IF m = "MXN" /\ tipo_cambio = One THEN None ELSE tipo_cambio
    ELSE IF m = "MXN" /\ IsNone(tipo_cambio) THEN One ELSE tipo_cambio

NoneImpuestosDR == [isNone |-> TRUE, TrasladosDR |-> {}, RetencionesDR |-> {}]

\* the ImpuestosDR node of the groups t and r; None without groups
ImpuestosDRDe(t, r) ==
    IF t = {} /\ r = {} THEN NoneImpuestosDR
    ELSE [isNone |-> FALSE, TrasladosDR |-> t, RetencionesDR |-> r]

\* a document-level group as a group of a related document
GroupDR(g) ==
    [ImpuestoDR |-> g.Impuesto, TipoFactorDR |-> g.TipoFactor,
     TasaOCuotaDR |-> g.TasaOCuota, BaseDR |-> g.Base, ImporteDR |-> g.Importe]

\* make_impuestos_dr(conceptos): the groups of a document paid in full
make_impuestos_dr(cs) ==
    ImpuestosDRDe({GroupDR(g) : g \in Groups(Traslados(cs))},
                  {GroupDR(g) : g \in Groups(Retenciones(cs))})

\* a proration that rounds to whole units of the currency
ProrrateoEntero(mode, decimals, g, factor) ==
    [ImpuestoDR |-> g.Impuesto, TipoFactorDR |-> g.TipoFactor,
     TasaOCuotaDR |-> g.TasaOCuota,
     BaseDR |-> rnd_fn(mode, 0, Mul(g.Base, factor)),
     ImporteDR |-> IF IsNone(g.Importe) THEN None
                   ELSE rnd_fn(mode, 0, Mul(g.Importe, factor))]

\* a group prorated by factor = imp_pagado / total; an Exento group carries
\* a prorated base only
Prorrateo(mode, decimals, g, factor) ==
    [ImpuestoDR |-> g.Impuesto, TipoFactorDR |-> g.TipoFactor,
     TasaOCuotaDR |-> g.TasaOCuota,
     BaseDR |-> rnd_fn(mode, decimals, Mul(g.Base, factor)),
     ImporteDR |-> IF IsNone(g.Importe) THEN None
                   ELSE rnd_fn(mode, decimals, Mul(g.Importe, factor))]

\* make_impuestos_dr_parcial(conceptos, imp_saldo_ant, imp_pagado, total,
\* rnd_fn): [err, val]
make_impuestos_dr_parcial(cs, imp_saldo_ant, imp_pagado, total, mode, decimals) ==
    IF Traslados(cs) = <<>> /\ Retenciones(cs) = <<>>
    THEN [err |-> "", val |-> NoneImpuestosDR]
    ELSE IF total.n = 0
    THEN [err |-> "DivisionByZero", val |-> NoneImpuestosDR]
    ELSE [err |-> "",
          val |-> ImpuestosDRDe(
                      {Prorrateo(mode, decimals, g, Div(imp_pagado, total)) :
                          g \in Groups(Traslados(cs))},
                      {Prorrateo(mode, decimals, g, Div(imp_pagado, total)) :
                          g \in Groups(Retenciones(cs))})]

\* one entry of 'DoctoRelacionado'
DoctoRelacionado(c, num_parcialidad, imp_saldo_ant, imp_pagado, impuestos_dr) ==
    [MonedaDR |-> c.doc.Moneda, EquivalenciaDR |-> One,
     NumParcialidad |-> num_parcialidad,
     ImpSaldoAnt |-> imp_saldo_ant, ImpPagado |-> imp_pagado,
     ObjetoImpDR |-> IF c.ImpuestosPresente THEN "02" ELSE "01",
     ImpuestosDR |-> impuestos_dr]

\* cls.complemento_pago(pago=[{...}])
ComplementoPago(doctos, m, tipo_cambio) ==
    [isNone |-> FALSE,
     Pago |-> <<[DoctoRelacionado |-> doctos, MonedaP |-> m,
                 TipoCambioP |-> tipo_cambio]>>]

\* the outcome of a payment operation that raised before it built anything
PagoRaised(err) ==
    [res |-> Raised(err, <<>>, <<>>), entrada |-> <<>>, receptor |-> NoReceptor]

\* pago as the class of version 3.3 runs it: UsoCFDI 'P01'
pago33(mode, e, receptor, complemento_pago) ==
    [res |-> Comprobante(mode,
                         Args(e, [receptor EXCEPT !.UsoCFDI = "P01"], "XXX",
                              "P", complemento_pago),
                         <<ConceptoPago>>),
     entrada |-> <<ConceptoPago>>,
     receptor |-> [receptor EXCEPT !.UsoCFDI = "P01"]]

\* Comprobante.pago(emisor, lugar_expedicion, receptor, complemento_pago);
\* cls.version is '4.0'.  receptor is the caller's receptor object after the
\* call: pago writes its UsoCFDI
pago(mode, e, receptor, complemento_pago) ==
    [res |-> Comprobante(mode,
                         Args(e, [receptor EXCEPT !.UsoCFDI = "CP01"], "XXX",
                              "P", complemento_pago),
                         <<ConceptoPago>>),
     entrada |-> <<ConceptoPago>>,
     receptor |-> [receptor EXCEPT !.UsoCFDI = "CP01"]]

\* a payment operation that hands first_cfdi['Receptor'] itself to pago
FuenteSinCopia(c, p) ==
    IF p.entrada = <<>> THEN c ELSE [c EXCEPT !.doc.Receptor = p.receptor]

\* receptor = first_cfdi['Receptor'].copy(): the first source document after
\* the call with outcome p; pago has written into the copy
FuenteTrasPago(c, p) == c

\* the outcome p of a payment of the source documents cs, with the source
\* documents as the call leaves them
TrasPago(cs, p) ==
    [res |-> p.res, entrada |-> p.entrada,
     comprobantes |-> [i \in 1..Len(cs) |->
                          IF i = 1 THEN FuenteTrasPago(cs[i], p) ELSE cs[i]]]

\* the ImpuestosDR argument that prorates over the subtotal of the document
ImpuestosDRSobreSubTotal(c, imp_saldo_ant, imp_pagado, mode) ==
    IF ~c.ImpuestosPresente THEN [err |-> "", val |-> NoneImpuestosDR]
    ELSE IF c.doc.Moneda \notin Monedas
    THEN [err |-> "UnknownCurrency", val |-> NoneImpuestosDR]
    ELSE make_impuestos_dr_parcial(c.Conceptos, imp_saldo_ant, imp_pagado,
                                   c.doc.SubTotal, mode,
                                   MonedaDecimales(c.doc.Moneda))

\* make_impuestos_dr_parcial(conceptos=c['Conceptos'], imp_saldo_ant,
\*     imp_pagado, total=c["Total"], rnd_fn=rounder(c["Moneda"]))
\*     if 'Impuestos' in c else None
ImpuestosDRParcial(c, imp_saldo_ant, imp_pagado, mode) ==
    IF ~c.ImpuestosPresente THEN [err |-> "", val |-> NoneImpuestosDR]
    ELSE IF c.doc.Moneda \notin Monedas
    THEN [err |-> "UnknownCurrency", val |-> NoneImpuestosDR]
    ELSE make_impuestos_dr_parcial(c.Conceptos, imp_saldo_ant, imp_pagado,
                                   c.doc.Total, mode,
                                   MonedaDecimales(c.doc.Moneda))

\* the payment of one document once its ImpuestosDR argument dr is evaluated
PagoDe(mode, e, c, m, num_parcialidad, imp_saldo_ant, imp_pagado, tipo_cambio, dr) ==
    IF ~(c.doc.Moneda = m) THEN PagoRaised("ValueError")
    ELSE IF dr.err # "" THEN PagoRaised(dr.err)
    ELSE pago(mode, e, c.doc.Receptor,
              ComplementoPago(<<DoctoRelacionado(c, num_parcialidad, imp_saldo_ant,
                                                 imp_pagado, dr.val)>>,
                              m, tipo_cambio))

\* Comprobante.pago_comprobante
pago_comprobante(mode, version, e, c, num_parcialidad, imp_saldo_ant, imp_pagado, tipo_cambio) ==
    TrasPago(<<c>>,
             PagoDe(mode, e, c, c.doc.Moneda, num_parcialidad, imp_saldo_ant,
                    imp_pagado,
                    TipoCambioRegla(version, c.doc.Moneda, tipo_cambio),
                    ImpuestosDRParcial(c, imp_saldo_ant, imp_pagado, mode)))

\* a currency check that lets every document pass
MonedaCualquiera(c, m) == TRUE

\* c["Moneda"] == moneda
MismaMoneda(c, m) == c.doc.Moneda = m

\* an issuer/receiver check that compares the RFCs only
MismoRfc(c, e, receptor) ==
    /\ c.doc.Emisor.Rfc = e.rfc
    /\ c.doc.Receptor.Rfc = receptor.Rfc

\* c["Emisor"]["Rfc"] == emisor.rfc and ... and
\* c["Receptor"].get("RegimenFiscalReceptor") == receptor.get(...)
MismoEmisorReceptor(c, e, receptor) ==
    /\ c.doc.Emisor.Rfc = e.rfc
    /\ c.doc.Emisor.RegimenFiscal = e.tax_system
    /\ c.doc.Receptor.Rfc = receptor.Rfc
    /\ c.doc.Receptor.RegimenFiscalReceptor = receptor.RegimenFiscalReceptor

\* the entry of a document paid in full in one payment
DoctoTotal(c) ==
    DoctoRelacionado(c, 1, c.doc.Total, c.doc.Total,
                     IF c.ImpuestosPresente THEN make_impuestos_dr(c.Conceptos)
                     ELSE NoneImpuestosDR)

\* the payment of the documents cs once tipo_cambio went through the rule
PagosDe(mode, e, cs, tipo_cambio) ==
    IF ~(\A i \in 1..Len(cs) :
             /\ MismaMoneda(cs[i], cs[1].doc.Moneda)
             /\ MismoEmisorReceptor(cs[i], e, cs[1].doc.Receptor))
    THEN PagoRaised("ValueError")
    ELSE pago(mode, e, cs[1].doc.Receptor,
              ComplementoPago([i \in 1..Len(cs) |-> DoctoTotal(cs[i])],
                              cs[1].doc.Moneda, tipo_cambio))

\* Comprobante.pago_comprobantes
pago_comprobantes(mode, version, e, cs, tipo_cambio) ==
    TrasPago(cs, PagosDe(mode, e, cs,
                         TipoCambioRegla(version, cs[1].doc.Moneda, tipo_cambio)))

\* a stamped document built by the constructor for a payment to refer to,
\* read back from its XML
Fuente(res) == CFDI(res.doc, res.conceptos)

\* the same document as the constructor left it in memory
FuenteEnMemoria(res) == EnMemoria(res.doc, res.conceptos)

ConIVA == <<Concepto(D(1), D(116), "04", Zero, <<IVA16Largo>>, <<>>, FALSE)>>
SinImpuestos == <<Concepto(D(2), D(50), "02", None, <<>>, <<>>, FALSE)>>

\* the documents a caller hands to pago_comprobantes
FuentePool(mode) == {
    Fuente(Comprobante(mode, Args(EmisorA, ReceptorA, "MXN", "I", NoComplemento), ConIVA)),
    Fuente(Comprobante(mode, Args(EmisorA, ReceptorA, "MXN", "I", NoComplemento), SinImpuestos)),
    FuenteEnMemoria(Comprobante(mode, Args(EmisorA, ReceptorA, "MXN", "I", NoComplemento), SinImpuestos)),
    Fuente(Comprobante(mode, Args(EmisorA, ReceptorA, "JPY", "I", NoComplemento), ConIVA)),
    Fuente(Comprobante(mode, Args(EmisorB, ReceptorA, "MXN", "I", NoComplemento), ConIVA)),
    Fuente(Comprobante(mode, Args(EmisorOtroRegimen, ReceptorA, "MXN", "I", NoComplemento), ConIVA)),
    Fuente(Comprobante(mode, Args(EmisorA, ReceptorB, "MXN", "I", NoComplemento), ConIVA)),
    Fuente(Comprobante(mode, Args(EmisorA, ReceptorOtroRegimen, "MXN", "I", NoComplemento), ConIVA))
}

\* the state after a call of the constructor with outcome res
Return(res) ==
    /\ status' = res.status
    /\ error' = res.error
    /\ conceptos' = res.conceptos
    /\ locals' = res.locals
    /\ doc' = res.doc
    /\ firmado' = res.firmado

\* Comprobante(emisor, lugar_expedicion, receptor, conceptos, moneda)
Build ==
    /\ status = "input"
    /\ \E m \in {"MXN", "JPY", "ZZZ"}, e \in {EmisorA, EmisorSinFirma} :
        /\ moneda' = m
        /\ emisor' = e
        /\ entrada' = conceptos
        /\ Return(Comprobante(rounding, Args(e, ReceptorA, m, "I", NoComplemento),
                              conceptos))
    /\ llamada' = "Comprobante"
    /\ UNCHANGED <<rounding, previo, fuentes, pedido, pagos>>
    /\ UNCHANGED otros

\* Comprobante(...) called once more with the concept objects that the
\* earlier call has processed, and with the same other arguments
Rebuild ==
    /\ status = "built"
    /\ llamada = "Comprobante"
    /\ ~previo.built
    /\ previo' = doc
    /\ entrada' = conceptos
    /\ Return(Comprobante(rounding,
                          Args(emisor, doc.Receptor, moneda,
                               doc.TipoDeComprobante, doc.Complemento),
                          conceptos))
    /\ UNCHANGED <<rounding, moneda, emisor, llamada, fuentes, pedido, pagos>>
    /\ UNCHANGED otros

\* the state after a call of a payment operation with outcome p
PagoReturn(p) ==
    /\ entrada' = p.entrada
    /\ moneda' = "XXX"
    /\ previo' = NoDoc
    /\ fuentes' = p.comprobantes
    /\ Return(p.res)

\* the payment complements a caller of pago builds on its own
ComplementoPool == {
    ComplementoPago(<<>>, "MXN", One),
    ComplementoPago(<<[MonedaDR |-> "USD", EquivalenciaDR |-> One,
                       NumParcialidad |-> 2, ImpSaldoAnt |-> D(500),
                       ImpPagado |-> D(300), ObjetoImpDR |-> "01",
                       ImpuestosDR |-> NoneImpuestosDR]>>, "USD", D(20))
}

\* Comprobante.pago(emisor, lugar_expedicion, receptor, complemento_pago)
Pago ==
    /\ status = "input"
    /\ conceptos = <<>>
    /\ \E e \in {EmisorA, EmisorSinFirma}, receptor \in {ReceptorA, ReceptorB} :
        \E complemento_pago \in ComplementoPool :
            /\ emisor' = e
            /\ PagoReturn(TrasPago(<<>>, pago(rounding, e, receptor, complemento_pago)))
    /\ llamada' = "pago"
    /\ UNCHANGED <<rounding, pedido, pagos>>
    /\ UNCHANGED otros

\* the balance of fuentes[1] after the payments made so far
Saldo == Sub(pagos[Len(pagos)].ImpSaldoAnt, pagos[Len(pagos)].ImpPagado)

\* one call of pago_comprobante for the document c, previos being the
\* entries of the earlier payments of c
PagoParcial(c, num_parcialidad, imp_saldo_ant, imp_pagado, version, tipo_cambio, previos) ==
    /\ pedido' = [version |-> version, tipo_cambio |-> tipo_cambio,
                  comprobantes |-> <<c>>]
    /\ PagoReturn(pago_comprobante(rounding, version, emisor, c, num_parcialidad,
                                   imp_saldo_ant, imp_pagado, tipo_cambio))
    /\ pagos' = IF status' = "built"
                THEN Append(previos, doc'.Complemento.Pago[1].DoctoRelacionado[1])
                ELSE previos

\* the class and the tipo_cambio argument of a call of pago_comprobante
CambioPool == {[version |-> PagosVersion, tipo_cambio |-> None],
               [version |-> "1.0", tipo_cambio |-> One]}

\* Comprobante.pago_comprobante(emisor, lugar_expedicion, comprobante,
\*     num_parcialidad, imp_saldo_ant, imp_pagado, fecha_pago, forma_pago,
\*     tipo_cambio): the first payment of the signed document of the last
\* build once it is stamped, or the next payment of the document paid last;
\* the balance is paid in full or by half, a first payment by half under the
\* class's own complement version
PagoComprobante ==
    /\ status = "built"
    /\ \/ /\ doc.TipoDeComprobante = "I"
          /\ doc.Sello.kind = "signature"
          /\ \E c \in {CFDI(doc, conceptos), EnMemoria(doc, conceptos)} :
             \E imp_pagado \in {doc.Total, Div(doc.Total, D(2))} :
             \E a \in CambioPool :
                 /\ imp_pagado = doc.Total \/ a.version = PagosVersion
                 /\ PagoParcial(c, 1, doc.Total, imp_pagado, a.version, a.tipo_cambio, <<>>)
       \/ /\ llamada = "pago_comprobante"
          /\ Len(pagos) < MaxPagos
          /\ Saldo.n > 0
          /\ \E imp_pagado \in {Saldo, Div(Saldo, D(2))} :
                 PagoParcial(fuentes[1], Len(pagos) + 1, Saldo, imp_pagado,
                             pedido.version, pedido.tipo_cambio, pagos)
    /\ llamada' = "pago_comprobante"
    /\ UNCHANGED <<rounding, emisor>>
    /\ UNCHANGED otros

\* Comprobante.pago_comprobantes(emisor, lugar_expedicion, comprobantes,
\*     fecha_pago, forma_pago, tipo_cambio)
PagoComprobantes ==
    /\ status = "input"
    /\ conceptos = <<>>
    /\ \E n \in 1..MaxComprobantes, e \in {EmisorA, EmisorSinFirma, EmisorB} :
        \E cs \in [1..n -> FuentePool(rounding)] :
        \E version \in Versiones, tipo_cambio \in {None, One, D(20)} :
            /\ pedido' = [version |-> version, tipo_cambio |-> tipo_cambio,
                          comprobantes |-> cs]
            /\ emisor' = e
            /\ PagoReturn(pago_comprobantes(rounding, version, e, cs, tipo_cambio))
    /\ llamada' = "pago_comprobantes"
    /\ UNCHANGED <<rounding, pagos>>
    /\ UNCHANGED otros

Next ==
    NewConcepto \/ Build \/ Rebuild \/ Pago \/ PagoComprobante \/ PagoComprobantes

Spec == Init /\ [][Next]_vars

\* ------------------------------------------------------------------------
\* Impuesto.parse on its own: a caller writes a compact string and parses it
\* ------------------------------------------------------------------------
\* the parts a caller puts between the '|' delimiters of a compact string
PartPool == {"", "IVA", "ISR", "Tasa", "Exento", "0.16", "x"}

\* "|".join(parts), as the sequence of its '|'-free chunks and delimiters
RECURSIVE Unir(_)
Unir(parts) ==
    IF Len(parts) = 1
    THEN (IF parts[1] = "" THEN <<>> ELSE <<parts[1]>>)
    ELSE (IF parts[1] = "" THEN <<>> ELSE <<parts[1]>>)
             \o <<"|">> \o Unir(Tail(parts))

InitParse ==
    /\ Init
    /\ rounding = "ROUND_HALF_UP"

\* the caller writes a compact string of up to MaxPartes parts
Escribir ==
    /\ \E n \in 1..MaxPartes : \E parts \in [1..n -> PartPool] :
           texto' = Unir(parts)
    /\ parsed' = NoParsed
    /\ UNCHANGED principal
    /\ UNCHANGED portal

\* Impuesto.parse(texto)
Parse ==
    /\ ~parsed.hecho
    /\ parsed' = [hecho |-> TRUE, err |-> parse(texto).err, imp |-> parse(texto).imp]
    /\ UNCHANGED <<texto, principal>>
    /\ UNCHANGED portal

NextParse == Escribir \/ Parse

SpecParse == InitParse /\ [][NextParse]_vars

\* ------------------------------------------------------------------------
\* SATFacturaElectronica: the verification token of a portal session
\* ------------------------------------------------------------------------
\* the tokens the portal hands out
Tokens == {"t1", "t2"}

\* the status codes of the portal's responses
Estados == {200, 302, 500}

\* request_verification_token(res): the token of the page, which holds one
\* (pagina in Tokens) or none (pagina = Null); it raises without one
request_verification_token(pagina) ==
    IF pagina = Null THEN [err |-> "Error", val |-> Null]
    ELSE [err |-> "", val |-> pagina]

\* the cached token tok after the page of a 200 response went through
\* request_verification_token with outcome t
Guardar(tok, t) ==
    IF t.err # "" THEN [err |-> t.err, token |-> tok]
    ELSE [err |-> "", token |-> t.val]

\* _reload_verification_token: the GET answers codigo with the page pagina
reload_verification_token(tok, codigo, pagina) ==
    IF codigo = 200 THEN Guardar(tok, request_verification_token(pagina))
    ELSE [err |-> "Please Login Again", token |-> tok]

\* self.request(...) with header __RequestVerificationToken tok, answered
\* with status api; recarga is the status the reload got, 0 without reload
Send(tok, recarga, api) ==
    [err |-> IF api = 200 THEN "" ELSE "ResponseError", token |-> tok,
     recarga |-> recarga, enviado |-> <<[token |-> tok, status |-> api]>>]

\* a _request that never reloads the token
requestSinRecarga(tok, codigo, pagina, api) == Send(tok, 0, api)

\* _request(method, path, data, params): codigo and pagina answer the
\* reload if there is one, api answers the request
request(tok, codigo, pagina, api) ==
    IF tok # Null THEN Send(tok, 0, api)
    ELSE IF reload_verification_token(tok, codigo, pagina).err # ""
    THEN [err |-> reload_verification_token(tok, codigo, pagina).err,
          token |-> reload_verification_token(tok, codigo, pagina).token,
          recarga |-> codigo, enviado |-> <<>>]
    ELSE Send(reload_verification_token(tok, codigo, pagina).token, codigo, api)

\* login: the GET answers codigo, formulario tells whether the login form
\* is found, posts whether every form post is answered 200, and pagina is
\* the page the last post returns
login(tok, codigo, formulario, posts, pagina) ==
    IF codigo # 200 THEN [err |-> "AssertionError", token |-> tok]
    ELSE IF ~formulario
    THEN [err |-> "Login form not found, please try again", token |-> tok]
    ELSE IF ~posts THEN [err |-> "AssertionError", token |-> tok]
    ELSE Guardar(tok, request_verification_token(pagina))

InitPortal ==
    /\ Init
    /\ rounding = "ROUND_HALF_UP"

\* session.login()
Login ==
    /\ \E codigo \in Estados, formulario \in BOOLEAN, posts \in BOOLEAN :
       \E pagina \in Tokens \cup {Null} :
           /\ token' = login(token, codigo, formulario, posts, pagina).token
           /\ ultimo' = [op |-> "login", antes |-> token, recarga |-> 0,
                         err |-> login(token, codigo, formulario, posts, pagina).err]
    /\ UNCHANGED enviados
    /\ UNCHANGED <<principal, texto, parsed>>

\* session._reload_verification_token()
ReloadVerificationToken ==
    /\ \E codigo \in Estados, pagina \in Tokens \cup {Null} :
           /\ token' = reload_verification_token(token, codigo, pagina).token
           /\ ultimo' = [op |-> "_reload_verification_token", antes |-> token,
                         recarga |-> codigo,
                         err |-> reload_verification_token(token, codigo, pagina).err]
    /\ UNCHANGED enviados
    /\ UNCHANGED <<principal, texto, parsed>>

\* session._request(method, path, data, params)
Request ==
    /\ Len(enviados) < MaxEnviados
    /\ \E codigo \in Estados, pagina \in Tokens \cup {Null}, api \in Estados :
           /\ token' = request(token, codigo, pagina, api).token
           /\ enviados' = enviados \o request(token, codigo, pagina, api).enviado
           /\ ultimo' = [op |-> "_request", antes |-> token,
                         recarga |-> request(token, codigo, pagina, api).recarga,
                         err |-> request(token, codigo, pagina, api).err]
    /\ UNCHANGED <<principal, texto, parsed>>

NextPortal == Login \/ ReloadVerificationToken \/ Request

SpecPortal == InitPortal /\ [][NextPortal]_vars

\* ------------------------------------------------------------------------
\* Properties
\* ------------------------------------------------------------------------
Built == status = "built"
Idx == 1..Len(conceptos)
Decimales == MonedaDecimales(moneda)
Round(x) == rnd_fn(rounding, Decimales, x)

\* the parsed transferred records of the k-th concept as it was passed in
TrasladadosDe(k) == ParseAll(entrada[k].Impuestos.Traslados).imps
STasa(k) == SumTasaOCuota(TrasladadosDe(k), "Tasa")
SCuota(k) == SumTasaOCuota(TrasladadosDe(k), "Cuota")

\* the exact unit price of the k-th concept before rounding: the price given,
\* or for a tax-inclusive concept (p - sum of fees) / (1 + sum of rates)
PrecioExacto(k) ==
    IF entrada[k].traslados_incluidos
    THEN Div(Sub(entrada[k].ValorUnitario, SCuota(k)), Add(One, STasa(k)))
    ELSE entrada[k].ValorUnitario

\* C1: for every Comprobante the constructor returns, Total = SubTotal - (sum
\* of the concepts' Descuento, absent counted as 0) + TotalImpuestosTrasladados
\* - TotalImpuestosRetenidos, a missing tax total counting as 0.
C1_Total ==
    Built =>
        doc.Total =
            Sub(Add(Sub(doc.SubTotal,
                        SumDec([k \in Idx |-> OrZero(conceptos[k].Descuento)])),
                    GetOrZero(doc.Impuestos.TotalImpuestosTrasladados)),
                GetOrZero(doc.Impuestos.TotalImpuestosRetenidos))

C1_Witness ==
    /\ Built
    /\ Truthy(doc.Descuento)
    /\ Truthy(doc.Impuestos.TotalImpuestosTrasladados)
    /\ Truthy(doc.Impuestos.TotalImpuestosRetenidos)

\* C2: SubTotal is the exact sum of the concepts' stored Importe values; each
\* stored Importe is the exact product rounded once, and the sum is not
\* rounded again.
C2_SubTotal ==
    Built =>
        /\ doc.SubTotal = SumDec([k \in Idx |-> conceptos[k].Importe])
        /\ \A k \in Idx :
               conceptos[k].Importe =
                   Round(Mul(entrada[k].Cantidad, PrecioExacto(k)))

\* two concepts whose exact amounts are rounded, so that the sum of the
\* rounded amounts differs from the rounded (and the exact) sum
C2_Witness ==
    /\ Built
    /\ Len(conceptos) >= 2
    /\ \A k \in Idx :
           conceptos[k].Importe # Mul(entrada[k].Cantidad, PrecioExacto(k))
    /\ doc.SubTotal #
           Round(SumDec([k \in Idx |-> Mul(entrada[k].Cantidad, PrecioExacto(k))]))

\* C3 (as claimed): every concept of the document satisfies Importe =
\* round(Cantidad * ValorUnitario) for the ValorUnitario stored on the concept,
\* tax-inclusive concepts included.
C3_ImporteDeValorUnitario ==
    Built =>
        \A k \in Idx :
            conceptos[k].Importe =
                Round(Mul(conceptos[k].Cantidad, conceptos[k].ValorUnitario))

\* C3 (amended): every concept of the document satisfies Importe =
\* round(Cantidad * v) where v is the exact unit price before rounding; the
\* stored ValorUnitario is v for an ordinary concept and round(v) for a
\* tax-inclusive one.
C3_ImporteDePrecioExacto ==
    Built =>
        \A k \in Idx :
            /\ conceptos[k].Importe =
                   Round(Mul(conceptos[k].Cantidad, PrecioExacto(k)))
            /\ conceptos[k].ValorUnitario =
                   IF entrada[k].traslados_incluidos
                   THEN Round(PrecioExacto(k)) ELSE PrecioExacto(k)

\* a tax-inclusive concept whose amount is not the rounded product of the
\* quantity and the stored (rounded) unit price
C3_Witness ==
    /\ Built
    /\ \E k \in Idx :
           /\ entrada[k].traslados_incluidos
           /\ conceptos[k].ValorUnitario # PrecioExacto(k)
           /\ conceptos[k].Importe #
                  Round(Mul(conceptos[k].Cantidad, conceptos[k].ValorUnitario))

\* C4 (as claimed): for every concept not declared not-subject-to-tax, the
\* tax records are computed against base = Importe - Descuento with the
\* Importe stored on the concept (absent discount as 0).
C4_BaseDeImporte ==
    Built =>
        \A k \in Idx :
            ~NoObjeto(entrada[k]) =>
                locals[k].base =
                    Sub(conceptos[k].Importe, OrZero(conceptos[k].Descuento))

\* C4 (amended): the tax records are computed against base = Cantidad * v -
\* Descuento, Cantidad * v being the exact product before rounding (absent
\* discount as 0).
C4_BaseDeProductoExacto ==
    Built =>
        \A k \in Idx :
            ~NoObjeto(entrada[k]) =>
                locals[k].base =
                    Sub(Mul(entrada[k].Cantidad, PrecioExacto(k)),
                        OrZero(entrada[k].Descuento))

\* a taxed concept with a discount whose exact product is not its Importe
C4_Witness ==
    /\ Built
    /\ \E k \in Idx :
           /\ ~NoObjeto(entrada[k])
           /\ ~conceptos[k].Impuestos.isNone
           /\ Truthy(entrada[k].Descuento)
           /\ conceptos[k].Importe # Mul(entrada[k].Cantidad, PrecioExacto(k))

\* the concept-level tax records of the k-th concept after the build
RegistrosDe(k) == conceptos[k].Impuestos.Traslados \o conceptos[k].Impuestos.Retenciones
\* the tax records of the k-th concept as they were passed in
EntradasDe(k) == entrada[k].Impuestos.Traslados \o entrada[k].Impuestos.Retenciones

Negativo(x) == ~IsNone(x) /\ x.n < 0
ConBaseOImporte(i) == ~IsNone(i.Base) \/ ~IsNone(i.Importe)

\* C5: every computed record of factor type Tasa on a concept has Importe =
\* round(Base * TasaOCuota) at the currency's precision, and no computed Base
\* or Importe is negative.
C5_TasaNoNegativa ==
    Built =>
        \A k \in Idx : \A j \in 1..Len(RegistrosDe(k)) :
            LET r == RegistrosDe(k)[j]
            IN  /\ r.TipoFactor = "Tasa" =>
                       r.Importe = Round(Mul(r.Base, r.TasaOCuota))
                /\ ~Negativo(r.Base)
                /\ ~Negativo(r.Importe)

\* C6: Exento records never carry a rate or an amount, at concept level and
\* in the document-level groups.
C6_ExentoSinTasaNiImporte ==
    Built =>
        /\ \A k \in Idx : \A j \in 1..Len(RegistrosDe(k)) :
               LET r == RegistrosDe(k)[j]
               IN  r.TipoFactor = "Exento" =>
                       IsNone(r.TasaOCuota) /\ IsNone(r.Importe)
        /\ \A g \in doc.Impuestos.Traslados \cup doc.Impuestos.Retenciones :
               g.TipoFactor = "Exento" =>
                   IsNone(g.TasaOCuota) /\ IsNone(g.Importe)

\* C7 (as claimed): no document is returned when a tax-inclusive concept has
\* any input tax record that already carries a Base or an Importe.
C7_IncluidosConCualquierRegistro ==
    Built =>
        ~\E k \in Idx :
            /\ entrada[k].traslados_incluidos
            /\ \E j \in 1..Len(EntradasDe(k)) : ConBaseOImporte(EntradasDe(k)[j])

\* C7 (amended): no document is returned when a tax-inclusive concept has an
\* input transferred record of factor type Tasa or Cuota that already carries
\* a Base or an Importe.
C7_IncluidosConTraslado ==
    Built =>
        ~\E k \in Idx :
            /\ entrada[k].traslados_incluidos
            /\ \E j \in 1..Len(entrada[k].Impuestos.Traslados) :
                   LET i == entrada[k].Impuestos.Traslados[j]
                   IN  /\ ~i.isStr
                       /\ i.TipoFactor \in {"Tasa", "Cuota"}
                       /\ ConBaseOImporte(i)

\* the build was aborted by the tax-inclusive check of such a concept
C7_Witness ==
    /\ status = "failed"
    /\ error = "ValueError"
    /\ doc = NoDoc
    /\ \E k \in 1..Len(entrada) :
           /\ entrada[k].traslados_incluidos
           /\ \E j \in 1..Len(entrada[k].Impuestos.Traslados) :
                  ConBaseOImporte(entrada[k].Impuestos.Traslados[j])

\* the recomputed inclusive price of the k-th concept from its stored price
PrecioRecompuesto(k) ==
    Add(Mul(conceptos[k].ValorUnitario, Add(One, STasa(k))), SCuota(k))
\* its distance to the inclusive price that was passed in
Desviacion(k) == AbsDec(Sub(PrecioRecompuesto(k), entrada[k].ValorUnitario))

\* a tax-inclusive concept whose input tax records carry no Base / Importe
IncluidosSinBase(k) ==
    /\ entrada[k].traslados_incluidos
    /\ \A j \in 1..Len(EntradasDe(k)) : ~ConBaseOImporte(EntradasDe(k)[j])

\* C8 (as claimed): for every tax-inclusive concept whose tax records have no
\* pre-set Base / Importe, u * (1 + sum of rates) + sum of fees, u the stored
\* back-solved price, is within one rounding unit of the inclusive price p.
C8_IdaYVueltaUnaUnidad ==
    Built =>
        \A k \in Idx :
            IncluidosSinBase(k) =>
                Leq(Desviacion(k), RoundingUnit(Decimales))

\* C8 (amended): the deviation is at most |1 + sum of rates| / 2 rounding
\* units, hence within one rounding unit when |1 + sum of rates| <= 2.
C8_IdaYVueltaAcotada ==
    Built =>
        \A k \in Idx :
            IncluidosSinBase(k) =>
                LET f == AbsDec(Add(One, STasa(k)))
                IN  /\ Leq(Desviacion(k),
                           Mul(Mul(f, Dec(1, 2)), RoundingUnit(Decimales)))
                    /\ Leq(f, D(2)) =>
                           Leq(Desviacion(k), RoundingUnit(Decimales))

\* a tax-inclusive concept with rates and a fee whose back-solved price was
\* rounded, and one whose recomputed price is off by more than half a unit
C8_Witness ==
    /\ Built
    /\ \E k \in Idx :
           /\ IncluidosSinBase(k)
           /\ SCuota(k).n # 0
           /\ STasa(k).n # 0
           /\ conceptos[k].ValorUnitario # PrecioExacto(k)
    /\ \E k \in Idx :
           /\ IncluidosSinBase(k)
           /\ Less(Mul(Dec(1, 2), RoundingUnit(Decimales)), Desviacion(k))

\* the concepts of the list that are not declared '01' / '03'
RECURSIVE Gravables(_)
Gravables(cs) ==
    IF cs = <<>> THEN <<>>
    ELSE IF Head(cs).ObjetoImp \in {"01", "03"} THEN Gravables(Tail(cs))
    ELSE <<Head(cs)>> \o Gravables(Tail(cs))

\* C9: a concept declared '01' or '03' ends with no tax records and keeps its
\* marking, whatever tax records came with it; the document's tax groups and
\* tax totals are those of the list without such concepts.
C9_NoObjetoSinImpuestos ==
    Built =>
        /\ \A k \in Idx :
               entrada[k].ObjetoImp \in {"01", "03"} =>
                   /\ conceptos[k].Impuestos.isNone
                   /\ conceptos[k].ObjetoImp = entrada[k].ObjetoImp
        /\ doc.Impuestos =
               make_impuestos(ConceptosLoop(rounding, Decimales,
                                            Gravables(entrada)).conceptos)

\* a '01' / '03' concept that came with tax records, next to a taxed concept
C9_Witness ==
    /\ Built
    /\ ~doc.Impuestos.isNone
    /\ \E k \in Idx :
           /\ entrada[k].ObjetoImp \in {"01", "03"}
           /\ entrada[k].Impuestos.Traslados # <<>>
           /\ entrada[k].Impuestos.Retenciones # <<>>

\* C10: for every concept not declared '01' / '03', after the per-concept
\* step ObjetoImp is '02' exactly when a transferred or withheld record
\* resulted, and '01' with Impuestos None otherwise, whatever ObjetoImp was
\* passed in.
C10_ObjetoImp ==
    Built =>
        \A k \in Idx :
            entrada[k].ObjetoImp \notin {"01", "03"} =>
                /\ Len(RegistrosDe(k)) = Len(EntradasDe(k))
                /\ conceptos[k].ObjetoImp = "02" <=> RegistrosDe(k) # <<>>
                /\ RegistrosDe(k) = <<>> =>
                       conceptos[k].ObjetoImp = "01" /\ conceptos[k].Impuestos.isNone
                /\ RegistrosDe(k) # <<>> => ~conceptos[k].Impuestos.isNone

\* a concept passed as '02' without taxes ends '01', and one passed as '04'
\* or unmarked with only withheld taxes ends '02'
C10_Witness ==
    /\ Built
    /\ \E k \in Idx :
           entrada[k].ObjetoImp = "02" /\ conceptos[k].ObjetoImp = "01"
    /\ \E k \in Idx :
           /\ entrada[k].ObjetoImp # "02"
           /\ conceptos[k].ObjetoImp = "02"
           /\ conceptos[k].Impuestos.Traslados = <<>>

\* ------------------------------------------------------------------------
\* Document-level aggregation
\* ------------------------------------------------------------------------
\* numeric equality of two optional decimals
Igual(x, y) == IF IsNone(x) \/ IsNone(y) THEN IsNone(x) /\ IsNone(y)
               ELSE Dec(x.n, x.d) = Dec(y.n, y.d)

\* record r falls under the key (kind, factor, rate) of group g; an Exento
\* record has no rate to compare
MismaClave(r, g) ==
    /\ r.Impuesto = g.Impuesto
    /\ r.TipoFactor = g.TipoFactor
    /\ r.TipoFactor = "Exento" \/ Igual(r.TasaOCuota, g.TasaOCuota)

RECURSIVE SumaBases(_, _)
\* sum of the Base of the records of recs under the key of g
SumaBases(recs, g) ==
    IF recs = <<>> THEN Zero
    ELSE IF MismaClave(Head(recs), g) /\ ~IsNone(Head(recs).Base)
    THEN Add(Head(recs).Base, SumaBases(Tail(recs), g))
    ELSE SumaBases(Tail(recs), g)

RECURSIVE SumaImportes(_, _)
\* sum of the Importe of the records of recs under the key of g
SumaImportes(recs, g) ==
    IF recs = <<>> THEN Zero
    ELSE IF MismaClave(Head(recs), g) /\ ~IsNone(Head(recs).Importe)
    THEN Add(Head(recs).Importe, SumaImportes(Tail(recs), g))
    ELSE SumaImportes(Tail(recs), g)

RECURSIVE SumaTodos(_)
\* sum of the Importe of every record of recs
SumaTodos(recs) ==
    IF recs = <<>> THEN Zero
    ELSE IF IsNone(Head(recs).Importe) THEN SumaTodos(Tail(recs))
    ELSE Add(Head(recs).Importe, SumaTodos(Tail(recs)))

\* groups is the grouping of recs: every record falls in a group, there is
\* one group per key, and a group sums the Base and Importe of its members
Agrupado(recs, groups) ==
    /\ \A k \in 1..Len(recs) : \E g \in groups : MismaClave(recs[k], g)
    /\ \A g \in groups :
           /\ \E k \in 1..Len(recs) : MismaClave(recs[k], g)
           /\ g.Base = SumaBases(recs, g)
           /\ g.TipoFactor # "Exento" => g.Importe = SumaImportes(recs, g)
    /\ \A g, h \in groups :
           (/\ g.Impuesto = h.Impuesto
            /\ g.TipoFactor = h.TipoFactor
            /\ Igual(g.TasaOCuota, h.TasaOCuota)) => g = h

\* the total of a kind: absent without groups, else the sum of all amounts
TotalDe(recs, total) ==
    IF recs = <<>> THEN IsNone(total) ELSE total = SumaTodos(recs)

\* C11: the document groups the concept-level tax records of the whole list
\* by (kind, factor, rate), rates compared as exact decimals; each group's
\* Base and Importe are the sums over its members, and the transferred and
\* withheld totals are the sums of all concept-level amounts of their kind.
C11_Agrupacion ==
    Built =>
        /\ Agrupado(Traslados(conceptos), doc.Impuestos.Traslados)
        /\ Agrupado(Retenciones(conceptos), doc.Impuestos.Retenciones)
        /\ doc.Impuestos.isNone <=>
               Traslados(conceptos) = <<>> /\ Retenciones(conceptos) = <<>>
        /\ ~doc.Impuestos.isNone =>
               /\ TotalDe(Traslados(conceptos),
                          doc.Impuestos.TotalImpuestosTrasladados)
               /\ TotalDe(Retenciones(conceptos),
                          doc.Impuestos.TotalImpuestosRetenidos)

\* two concepts whose rates were written '0.16' and '0.160000' share one
\* transferred group, whose amount is the sum of both
C11_Witness ==
    /\ Built
    /\ Len(conceptos) = 2
    /\ entrada[1].Impuestos.Traslados = <<IVA16>>
    /\ entrada[2].Impuestos.Traslados = <<IVA16Largo>>
    /\ Cardinality(doc.Impuestos.Traslados) = 1
    /\ \A g \in doc.Impuestos.Traslados :
           /\ g.Importe = Add(conceptos[1].Impuestos.Traslados[1].Importe,
                              conceptos[2].Impuestos.Traslados[1].Importe)
           /\ Truthy(conceptos[1].Impuestos.Traslados[1].Importe)
           /\ Truthy(conceptos[2].Impuestos.Traslados[1].Importe)

\* ------------------------------------------------------------------------
\* Building twice from the same concept objects
\* ------------------------------------------------------------------------
\* C12: grouping is idempotent: a second document built from the concept
\* objects that an earlier build has processed carries the same tax groups
\* and totals as the first.
C12_SegundaConstruccionIgual ==
    previo.built =>
        /\ Built
        /\ doc.Impuestos = previo.Impuestos
        /\ doc.SubTotal = previo.SubTotal
        /\ doc.Total = previo.Total

\* ------------------------------------------------------------------------
\* Signature
\* ------------------------------------------------------------------------
\* C13: with a signer, a build that returns has called sign exactly once, on
\* the canonical string of the fully assembled tree whose Sello was still
\* empty (every total already in it), and Sello holds the returned signature
\* verbatim; a build that fails has not called sign.
C13_FirmaUnaVez ==
    /\ (Built /\ emisor.signer) =>
           /\ Len(firmado) = 1
           /\ firmado[1] = cadena_original([doc EXCEPT !.Sello = Empty], conceptos)
           /\ firmado[1].Comprobante.Total =
                  Total(SubTotal(conceptos), Descuento(conceptos), doc.Impuestos)
           /\ doc.Sello = sign_sha256(firmado[1])
    /\ status = "failed" => firmado = <<>>

\* a signed document with tax groups
C13_Witness ==
    /\ Built
    /\ emisor.signer
    /\ Len(conceptos) = 2
    /\ doc.Impuestos.Traslados # {}
    /\ doc.Impuestos.Retenciones # {}
    /\ doc.Sello.kind = "signature"

\* C14: without a signer, the document returned carries Sello as a present,
\* empty string (neither absent nor None) and sign was never called.
C14_SelloVacio ==
    (Built /\ ~emisor.signer) =>
        /\ doc.Sello = Empty
        /\ doc.Sello # Absent
        /\ firmado = <<>>

\* an unsigned draft of a document with concepts
C14_Witness ==
    /\ Built
    /\ ~emisor.signer
    /\ conceptos # <<>>
    /\ ~doc.Impuestos.isNone
    /\ doc.Sello.kind = "empty"

\* ------------------------------------------------------------------------
\* Payment documents
\* ------------------------------------------------------------------------
EsPago == llamada \in {"pago_comprobante", "pago_comprobantes"}
FuentesIdx == 1..Len(fuentes)

\* C15: no payment document is produced from source documents in different
\* currencies: pago_comprobantes fails if a source document's Moneda differs
\* from the first one's, and in every payment document returned each related
\* document's MonedaDR equals the payment's MonedaP.
C15_UnaMoneda ==
    /\ (/\ llamada = "pago_comprobantes"
        /\ \E i \in FuentesIdx : fuentes[i].doc.Moneda # fuentes[1].doc.Moneda)
       => status = "failed" /\ error = "ValueError" /\ ~doc.built
    /\ (EsPago /\ Built) =>
           /\ \A i \in FuentesIdx : fuentes[i].doc.Moneda = fuentes[1].doc.Moneda
           /\ Len(doc.Complemento.Pago) = 1
           /\ \A p \in 1..Len(doc.Complemento.Pago) :
                  /\ Len(doc.Complemento.Pago[p].DoctoRelacionado) = Len(fuentes)
                  /\ doc.Complemento.Pago[p].MonedaP = fuentes[1].doc.Moneda
                  /\ \A i \in FuentesIdx :
                         doc.Complemento.Pago[p].DoctoRelacionado[i].MonedaDR =
                             doc.Complemento.Pago[p].MonedaP

\* two documents that agree in issuer and receiver but not in currency
C15_Witness ==
    /\ llamada = "pago_comprobantes"
    /\ status = "failed"
    /\ Len(fuentes) = 2
    /\ fuentes[1].doc.Moneda = "JPY"
    /\ fuentes[2].doc.Moneda = "MXN"
    /\ MismoEmisorReceptor(fuentes[1], emisor, fuentes[1].doc.Receptor)
    /\ MismoEmisorReceptor(fuentes[2], emisor, fuentes[1].doc.Receptor)

\* the issuer/receiver/tax-regime triple of source document i disagrees with
\* the paying issuer or with the receiver of the first document
Discrepa(i) ==
    \/ fuentes[i].doc.Emisor.Rfc # emisor.rfc
    \/ fuentes[i].doc.Emisor.RegimenFiscal # emisor.tax_system
    \/ fuentes[i].doc.Receptor.Rfc # fuentes[1].doc.Receptor.Rfc
    \/ fuentes[i].doc.Receptor.RegimenFiscalReceptor #
           fuentes[1].doc.Receptor.RegimenFiscalReceptor

\* C16: pago_comprobantes fails, before any payment document is assembled or
\* signed, whenever a source document's issuer RFC or issuer tax regime
\* differs from the paying issuer's, or its receiver RFC or receiver tax
\* regime differs from the first document's receiver.
C16_EmisorReceptor ==
    (llamada = "pago_comprobantes" /\ \E i \in FuentesIdx : Discrepa(i)) =>
        /\ status = "failed"
        /\ error = "ValueError"
        /\ doc = NoDoc
        /\ conceptos = <<>>
        /\ firmado = <<>>

\* two documents in one currency, alike but for the receiver's tax regime,
\* paid by their issuer, who holds a signer
C16_Witness ==
    /\ llamada = "pago_comprobantes"
    /\ status = "failed"
    /\ emisor.signer
    /\ Len(fuentes) = 2
    /\ fuentes[1].doc.Moneda = fuentes[2].doc.Moneda
    /\ fuentes[1].doc.Emisor = fuentes[2].doc.Emisor
    /\ fuentes[1].doc.Emisor.Rfc = emisor.rfc
    /\ fuentes[1].doc.Emisor.RegimenFiscal = emisor.tax_system
    /\ fuentes[1].doc.Receptor.Rfc = fuentes[2].doc.Receptor.Rfc
    /\ fuentes[1].doc.Receptor.RegimenFiscalReceptor #
           fuentes[2].doc.Receptor.RegimenFiscalReceptor

\* ------------------------------------------------------------------------
\* Rejected inputs and failed builds
\* ------------------------------------------------------------------------
\* C17: no document that is returned contains a negative quantity, a
\* negative concept amount, or a tax record with a negative base or amount
\* (a concept with a negative quantity, or with a discount above its amount,
\* is rejected).
C17_SinNegativos ==
    Built =>
        \A k \in Idx :
            /\ ~Negativo(conceptos[k].Cantidad)
            /\ ~Negativo(conceptos[k].Importe)
            /\ \A j \in 1..Len(RegistrosDe(k)) :
                   /\ ~Negativo(RegistrosDe(k)[j].Base)
                   /\ ~Negativo(RegistrosDe(k)[j].Importe)

\* C18: a build whose currency code is not in the currency table fails
\* before any concept is processed or modified and before any tree is
\* produced or signed.
C18_MonedaDesconocida ==
    (llamada = "Comprobante" /\ moneda \notin Monedas) =>
        /\ status = "failed"
        /\ error = "UnknownCurrency"
        /\ conceptos = entrada
        /\ locals = <<>>
        /\ doc = NoDoc
        /\ firmado = <<>>

\* a build in an unknown currency of two concepts, the first tax-inclusive
\* (a pass of the loop would have overwritten its unit price)
C18_Witness ==
    /\ llamada = "Comprobante"
    /\ moneda \notin Monedas
    /\ status = "failed"
    /\ Len(entrada) = 2
    /\ entrada[1].traslados_incluidos
    /\ IsNone(conceptos[1].Importe)
    /\ emisor.signer

\* C19: a call either returns a fully assembled document (subtotal, total
\* and tax groups computed, every concept carrying its amount and its
\* ObjetoImp marking, Sello a signature or the empty string) or fails with
\* an error and returns nothing.
C19_SinParciales ==
    /\ status \in {"input", "built", "failed"}
    /\ status = "failed" => error # "" /\ doc = NoDoc
    /\ status = "input" => doc = NoDoc
    /\ Built =>
           /\ error = ""
           /\ doc.built
           /\ doc.SubTotal = SubTotal(conceptos)
           /\ doc.Total = Total(doc.SubTotal, Descuento(conceptos), doc.Impuestos)
           /\ \A k \in Idx :
                  /\ ~IsNone(conceptos[k].Importe)
                  /\ conceptos[k].ObjetoImp \in {"01", "02", "03"}
           /\ IF emisor.signer THEN doc.Sello.kind = "signature"
                               ELSE doc.Sello = Empty

\* a build that fails on its second concept after it has processed the
\* first one returns nothing
C19_Witness ==
    /\ llamada = "Comprobante"
    /\ status = "failed"
    /\ Len(entrada) = 2
    /\ ~IsNone(conceptos[1].Importe)
    /\ IsNone(conceptos[2].Importe)
    /\ doc = NoDoc

\* ------------------------------------------------------------------------
\* Proration of a partial payment
\* ------------------------------------------------------------------------
\* the related document of a payment made by pago_comprobante
Docto == doc.Complemento.Pago[1].DoctoRelacionado[1]
\* the original document and its currency's precision
Original == fuentes[1].doc
DecimalesOriginal == MonedaDecimales(Original.Moneda)

\* d is the group g of the original document prorated by ImpPagado / Total
Prorrateado(d, g) ==
    /\ d.ImpuestoDR = g.Impuesto
    /\ d.TipoFactorDR = g.TipoFactor
    /\ d.TasaOCuotaDR = g.TasaOCuota
    /\ IF g.TipoFactor = "Exento" THEN IsNone(d.ImporteDR)
       ELSE /\ d.ImporteDR =
                   rnd_fn(rounding, DecimalesOriginal,
                          Mul(g.Importe, Div(Docto.ImpPagado, Original.Total)))
            /\ Docto.ImpPagado = Original.Total => d.ImporteDR = g.Importe
            /\ Docto.ImpPagado = Div(Original.Total, D(2)) =>
                   Leq(AbsDec(Sub(d.ImporteDR, Div(g.Importe, D(2)))),
                       RoundingUnit(DecimalesOriginal))

\* the groups ds of the related document mirror the groups gs of the original
Espejo(ds, gs) ==
    /\ \A d \in ds : \E g \in gs : Prorrateado(d, g)
    /\ \A g \in gs : \E d \in ds : Prorrateado(d, g)
    /\ Cardinality(ds) = Cardinality(gs)

\* C20: in a payment document built by pago_comprobante each prorated tax
\* group has the (kind, factor, rate) key of a group of the original document
\* and amount round(original amount * paid_now / original total) at the
\* original currency's precision; paid_now = total reproduces every original
\* amount exactly and paid_now = total / 2 yields half of it within one
\* rounding unit.
C20_Prorrateo ==
    (llamada = "pago_comprobante" /\ Built) =>
        /\ Docto.ImpuestosDR.isNone <=> Original.Impuestos.isNone
        /\ Espejo(Docto.ImpuestosDR.TrasladosDR, Original.Impuestos.Traslados)
        /\ Espejo(Docto.ImpuestosDR.RetencionesDR, Original.Impuestos.Retenciones)

\* half of a document in a currency without decimals is paid and the
\* prorated amount of a group is not exactly half of the original amount
C20_Witness ==
    /\ llamada = "pago_comprobante"
    /\ Built
    /\ Docto.ImpPagado = Div(Original.Total, D(2))
    /\ Original.Impuestos.Retenciones # {}
    /\ \E d \in Docto.ImpuestosDR.TrasladosDR :
           \E g \in Original.Impuestos.Traslados :
               /\ Prorrateado(d, g)
               /\ Truthy(d.ImporteDR)
               /\ d.ImporteDR # Div(g.Importe, D(2))

\* ------------------------------------------------------------------------
\* Canonical string
\* ------------------------------------------------------------------------
\* the tree with the value of its field f changed to another present value
Cambiado(tree, f) ==
    CASE f = "Moneda" ->
             [tree EXCEPT !.Moneda = IF tree.Moneda = "MXN" THEN "USD" ELSE "MXN"]
      [] f = "SubTotal" -> [tree EXCEPT !.SubTotal = Add(tree.SubTotal, One)]
      [] f = "Total" -> [tree EXCEPT !.Total = Add(tree.Total, One)]
      [] f = "Descuento" -> [tree EXCEPT !.Descuento = Add(tree.Descuento, One)]
      [] f = "TipoDeComprobante" -> [tree EXCEPT !.TipoDeComprobante = "E"]
      [] f = "Emisor" -> [tree EXCEPT !.Emisor.Rfc = "CCC030303CCC"]
      [] f = "Receptor" -> [tree EXCEPT !.Receptor.UsoCFDI = "S01"]
      [] f = "Certificado" ->
             [tree EXCEPT !.Certificado =
                 IF tree.Certificado = Empty THEN certificate_base64 ELSE Empty]
      [] f = "Sello" ->
             [tree EXCEPT !.Sello =
                 IF tree.Sello = Empty THEN [kind |-> "signature", de |-> <<>>]
                 ELSE Empty]
      [] f = "Impuestos" ->
             [tree EXCEPT !.Impuestos.TotalImpuestosTrasladados =
                 Add(OrZero(tree.Impuestos.TotalImpuestosTrasladados), One)]
      [] f = "Complemento" -> [tree EXCEPT !.Complemento.Pago = <<>>]

Partes == Split(texto)

\* C22: a compact string parses into the kind, the factor and the rate of
\* its parts, the rate None without a third part, and the parse raises
\* whenever the kind or the factor is missing or empty.
C22_ParteFaltante ==
    parsed.hecho =>
        /\ parsed.err = "" =>
               /\ Len(Partes) >= 2
               /\ parsed.imp.Impuesto = ImpuestoCode(Partes[1])
               /\ parsed.imp.TipoFactor = Partes[2]
               /\ parsed.imp.TasaOCuota =
                      IF Len(Partes) > 2 THEN DecimalOf(Partes[3]) ELSE None
        /\ (Len(Partes) < 2 \/ Partes[1] = "" \/ Partes[2] = "") => parsed.err # ""

\* ------------------------------------------------------------------------
\* The worked example: 1 x 2250000.00, IVA 16% transferred, ISR 30% withheld
\* ------------------------------------------------------------------------
\* a tax element that is Exento
EsExento(t) ==
    IF t.isStr THEN Len(t.text) >= 3 /\ t.text[3] = "Exento"
    ELSE t.TipoFactor = "Exento"

\* a concept without taxes or with Exento taxes only
SinGravamen(c) ==
    \/ c.Impuestos.isNone
    \/ /\ \A i \in 1..Len(c.Impuestos.Traslados) : EsExento(c.Impuestos.Traslados[i])
       /\ \A i \in 1..Len(c.Impuestos.Retenciones) : EsExento(c.Impuestos.Retenciones[i])

\* the constructor has built a 2-decimal document of the example's first
\* concept and of further concepts without taxed amounts
C23Caso ==
    /\ Built
    /\ llamada = "Comprobante"
    /\ ~previo.built
    /\ MonedaDecimales(doc.Moneda) = 2
    /\ Len(entrada) >= 1
    /\ entrada[1].Cantidad = D(1)
    /\ entrada[1].ValorUnitario = D(2250000)
    /\ ~entrada[1].Impuestos.isNone
    /\ entrada[1].Impuestos.Traslados = <<IVA16>>
    /\ entrada[1].Impuestos.Retenciones = <<ISR30>>
    /\ \A k \in 2..Len(entrada) : SinGravamen(entrada[k])

\* the amounts of the example, the withheld amount being retenido
C23Importes(retenido) ==
    /\ conceptos[1].Importe = D(2250000)
    /\ \E g \in doc.Impuestos.Traslados :
           /\ g.Impuesto = "002"
           /\ g.TipoFactor = "Tasa"
           /\ g.TasaOCuota = Dec(16, 100)
           /\ g.Importe = D(360000)
    /\ \E g \in doc.Impuestos.Retenciones :
           /\ g.Impuesto = "001"
           /\ g.TipoFactor = "Tasa"
           /\ g.TasaOCuota = Dec(30, 100)
           /\ g.Importe = retenido

\* C23 as stated: the example yields concept amount 2250000.00, transferred
\* group (IVA, Tasa, 0.16) of 360000.00 and withheld group (ISR, Tasa, 0.30)
\* of 247500.00.
C23_EjemploOriginal == C23Caso => C23Importes(D(247500))

\* C23: the example yields concept amount 2250000.00, transferred group
\* (IVA, Tasa, 0.16) of 360000.00 and withheld group (ISR, Tasa, 0.30) of
\* 675000.00, whatever untaxed or exempt concepts follow the first.
C23_Ejemplo == C23Caso => C23Importes(D(675000))

\* the example with a second concept
C23_Witness == C23Caso /\ Len(entrada) = 2 /\ C23Importes(D(675000))

\* ------------------------------------------------------------------------
\* The shape of a payment document
\* ------------------------------------------------------------------------
\* the last call was one of the three payment operations
EsDocumentoDePago == llamada \in {"pago", "pago_comprobante", "pago_comprobantes"}

\* C24: every document that pago, pago_comprobante or pago_comprobantes
\* returns is of type 'P' in currency 'XXX', has exactly one concept
\* (quantity 1, unit price 0, amount 0, ObjetoImp '01', no taxes), SubTotal 0
\* and Total 0, no document-level Impuestos, no Descuento, and receiver
\* UsoCFDI 'CP01', whatever its payment complement holds.
C24_DocumentoDePago ==
    (EsDocumentoDePago /\ Built) =>
        /\ doc.TipoDeComprobante = "P"
        /\ doc.Moneda = "XXX"
        /\ Len(conceptos) = 1
        /\ conceptos[1].Cantidad = D(1)
        /\ conceptos[1].ValorUnitario = Zero
        /\ conceptos[1].Importe = Zero
        /\ conceptos[1].ObjetoImp = "01"
        /\ conceptos[1].Impuestos.isNone
        /\ doc.SubTotal = Zero
        /\ doc.Total = Zero
        /\ doc.Impuestos.isNone
        /\ IsNone(doc.Descuento)
        /\ doc.Receptor.UsoCFDI = "CP01"

\* a payment document whose complement carries a paid amount and prorated
\* taxes
C24_Witness ==
    /\ Built
    /\ llamada = "pago_comprobante"
    /\ ~doc.Complemento.isNone
    /\ doc.Complemento.Pago[1].DoctoRelacionado[1].ImpPagado.n > 0
    /\ ~doc.Complemento.Pago[1].DoctoRelacionado[1].ImpuestosDR.isNone

\* ------------------------------------------------------------------------
\* CRP204: the exchange rate of a payment
\* ------------------------------------------------------------------------
EsPagoDeComprobantes == EsPago /\ Built

\* the payment node of the document returned
PagoNodo == doc.Complemento.Pago[1]

\* C25: with payment complement 2.0 a payment in MXN given no exchange rate
\* gets TipoCambioP 1; with 1.0 a payment in MXN given exchange rate 1 gets
\* no TipoCambioP; in every other case TipoCambioP is the rate the caller
\* gave; in pago_comprobante and in pago_comprobantes alike.
C25_TipoCambioP ==
    EsPagoDeComprobantes =>
        /\ PagoNodo.MonedaP = pedido.comprobantes[1].doc.Moneda
        /\ PagoNodo.TipoCambioP =
               IF /\ pedido.version = "2.0"
                  /\ PagoNodo.MonedaP = "MXN"
                  /\ IsNone(pedido.tipo_cambio)
               THEN One
               ELSE IF /\ pedido.version = "1.0"
                       /\ PagoNodo.MonedaP = "MXN"
                       /\ pedido.tipo_cambio = One
               THEN None
               ELSE pedido.tipo_cambio

\* pago_comprobante drops the rate 1 of a payment in MXN under version 1.0
C25_Witness ==
    /\ Built
    /\ llamada = "pago_comprobante"
    /\ pedido.version = "1.0"
    /\ pedido.tipo_cambio = One
    /\ PagoNodo.MonedaP = "MXN"
    /\ IsNone(PagoNodo.TipoCambioP)

\* ------------------------------------------------------------------------
\* Nothing is written after the signature
\* ------------------------------------------------------------------------
\* the Sello of a signed document is the signature of the document as it
\* was returned (Sello is the last write of the build), and a call of
\* pago_comprobante or pago_comprobantes, returned or failed, leaves the
\* caller's source documents as they were passed in, the UsoCFDI of their
\* receiver included
SinEscrituraPosterior ==
    /\ (Built /\ emisor.signer) =>
           doc.Sello = sign_sha256(
               cadena_original([doc EXCEPT !.Sello = Empty], conceptos))
    /\ EsPago =>
           /\ fuentes = pedido.comprobantes
           /\ Built =>
                  /\ doc.Receptor = [fuentes[1].doc.Receptor EXCEPT !.UsoCFDI = "CP01"]
                  /\ \A i \in FuentesIdx : fuentes[i].doc.Receptor.UsoCFDI = "G03"

\* the signed document of an earlier build, which holds the caller's
\* concept objects, is still the document that was signed
PrevioIntacto ==
    (previo.built /\ previo.Sello.kind = "signature") =>
        previo.Sello = sign_sha256(
            cadena_original([previo EXCEPT !.Sello = Empty], conceptos))

FalloEnConcepto ==
    /\ llamada = "Comprobante"
    /\ ~previo.built
    /\ status = "failed"
    /\ error \in {"ValueError", "IndexError", "InvalidOperation"}

\* C27: when a build fails while it processes a concept, the caller's
\* concept objects are as they were passed in: no ValorUnitario, Importe,
\* Impuestos or ObjetoImp of any concept has been written.
C27_ConceptosIntactos ==
    FalloEnConcepto =>
        \A k \in 1..Len(entrada) :
            /\ conceptos[k].ValorUnitario = entrada[k].ValorUnitario
            /\ conceptos[k].Importe = entrada[k].Importe
            /\ conceptos[k].Impuestos = entrada[k].Impuestos
            /\ conceptos[k].ObjetoImp = entrada[k].ObjetoImp

\* ------------------------------------------------------------------------
\* A document paid in parts
\* ------------------------------------------------------------------------
\* the payments made of a source document with taxes have paid its total
PagadoEnPartes ==
    /\ llamada = "pago_comprobante"
    /\ Built
    /\ pagos # <<>>
    /\ Saldo = Zero
    /\ fuentes[1].ImpuestosPresente
    /\ ~Original.Impuestos.isNone
    /\ \A i \in 1..Len(pagos) : ~pagos[i].ImpuestosDR.isNone

\* the groups of the original document that carry an amount
ConImporte(groups) == {g \in groups : ~IsNone(g.Importe)}

\* the amount of the group g in the groups ds of one payment
ImporteDRDe(ds, g) ==
    (CHOOSE d \in ds : /\ d.ImpuestoDR = g.Impuesto
                       /\ d.TipoFactorDR = g.TipoFactor
                       /\ d.TasaOCuotaDR = g.TasaOCuota).ImporteDR

\* the prorated amounts of the group g over the first i payments
RECURSIVE SumaTraslados(_, _)
SumaTraslados(i, g) ==
    IF i = 0 THEN Zero
    ELSE Add(ImporteDRDe(pagos[i].ImpuestosDR.TrasladosDR, g), SumaTraslados(i - 1, g))

RECURSIVE SumaRetenciones(_, _)
SumaRetenciones(i, g) ==
    IF i = 0 THEN Zero
    ELSE Add(ImporteDRDe(pagos[i].ImpuestosDR.RetencionesDR, g), SumaRetenciones(i - 1, g))

\* x and y differ by at most half a rounding unit of the original document
\* per payment
CercaDe(x, y) ==
    Leq(AbsDec(Sub(x, y)),
        Mul(D(Len(pagos)), Dec(1, 2 * Pow10(DecimalesOriginal))))

C29_ObjetoImpDR ==
    EsPagoDeComprobantes =>
        \A i \in 1..Len(pedido.comprobantes) :
            IF pedido.comprobantes[i].doc.Impuestos.isNone
            THEN /\ PagoNodo.DoctoRelacionado[i].ObjetoImpDR = "01"
                 /\ PagoNodo.DoctoRelacionado[i].ImpuestosDR.isNone
            ELSE /\ PagoNodo.DoctoRelacionado[i].ObjetoImpDR = "02"
                 /\ ~PagoNodo.DoctoRelacionado[i].ImpuestosDR.isNone

\* ------------------------------------------------------------------------
\* The verification token of the API requests
\* ------------------------------------------------------------------------
\* the last operation was a _request
FuePeticion == ultimo.op = "_request"

\* the last operation sent an API request
Enviada == FuePeticion /\ ultimo.err \in {"", "ResponseError"}

====
